---- MODULE Spec2Model ----
(***************************************************************************)
(* Model of the live-caption controller of zoom-clone:                     *)
(*   hooks/useCaptions.ts        the useCaptions hook (controller and      *)
(*                               transcript reconciliation)                *)
(*   lib/captions/storage.ts     CaptionStorage over localStorage          *)
(*   lib/captions/speechRecognition.ts   the SpeechRecognitionService      *)
(*                               adapter and its restart timers            *)
(* The browser's SpeechRecognition object is an external collaborator; it  *)
(* is modelled by its life cycle (idle, starting, running, stopping,       *)
(* ending, failed or aborting) and the events it delivers to the handlers  *)
(* installed on it.  A result event carries one result at                  *)
(* event.resultIndex.  Spec is the hook, SpecAdapter the adapter,          *)
(* SpecCaptions either of them, SpecStore the store under import.          *)
(*                                                                         *)
(* React state is modelled by the committed value of each useState cell.   *)
(* The handlers installed by the mount effect close over the values that   *)
(* currentSession and isListening had in the render that ran the effect;   *)
(* the effect runs again only when one of its dependencies (language,      *)
(* continuous, interimResults, maxAlternatives) changes.  capSession and   *)
(* capListening are those captured values.  The useCallback operations     *)
(* list the state they read as dependencies and so read the committed      *)
(* state.                                                                  *)
(***************************************************************************)
EXTENDS Integers, Sequences, FiniteSets, TLC

(* ------------------------------ bounds --------------------------------- *)
MaxClock == 1          \* the clock takes the values 0..MaxClock
MaxResults == 3        \* recognition results delivered in one run
MaxStarts == 2         \* startListening calls in one run
MaxLangChanges == 1    \* changes of the language option in one run
MaxErrors == 1         \* error events the hook's recognition delivers in one run
MaxTimers == 2         \* timers the adapter sets in one run
MaxImport == 2         \* elements of an imported list

(* A run of the hook is explored within one of four budgets: a long utterance
   stream in one session, restarts while the clock advances, a change of the
   language option, and recognition errors around a change of the language
   option. *)
Budgets ==
  { [results |-> MaxResults, starts |-> 1, langs |-> 0, clock |-> 0,
     errors |-> 0, timers |-> 0],
    [results |-> 1, starts |-> MaxStarts, langs |-> 0, clock |-> MaxClock,
     errors |-> 0, timers |-> 0],
    [results |-> 2, starts |-> 1, langs |-> MaxLangChanges, clock |-> 0,
     errors |-> 0, timers |-> 0],
    [results |-> 0, starts |-> 1, langs |-> 1, clock |-> 0,
     errors |-> MaxErrors, timers |-> 0] }

(* the budget of a run of the SpeechRecognitionService adapter *)
AdapterBudget ==
  [results |-> 0, starts |-> 0, langs |-> 0, clock |-> 0, errors |-> 0,
   timers |-> MaxTimers]

(* a run of the adapter in which results arrive while time passes *)
UtteranceBudget ==
  [results |-> 1, starts |-> 0, langs |-> 0, clock |-> MaxClock, errors |-> 0,
   timers |-> 1]

(* ------------------------------ inputs --------------------------------- *)
Languages == {"en", "es"}

(* one SpeechRecognitionResult: result[0].transcript, result[0].confidence,
   result.isFinal.  The recognizer revises an utterance ("he", "hell") and
   then finalizes it ("hello", "Hello."). *)
Result(text, isFinal) ==
  [transcript |-> text, confidence |-> 1, isFinal |-> isFinal]

RecognitionResults ==
  {Result("he", FALSE), Result("hell", FALSE),
   Result("hello", TRUE), Result("Hello.", TRUE)}

(* event.error of a SpeechRecognitionErrorEvent *)
ErrorKinds == {"no-speech", "audio-capture", "not-allowed", "network", "aborted"}

(* ------------------------------ values --------------------------------- *)
NoTime == 0 - 1        \* beginTimeRef.current = null
NoId == 0 - 1
NoError == "null"      \* error = null

(* no entry *)
NoEntry ==
  [text |-> "", timestamp |-> NoTime, startTime |-> NoTime, endTime |-> NoTime,
   confidence |-> 0, isFinal |-> FALSE, speaker |-> "none"]

(* no formatter and no size check has been called *)
NoArgs == [fn |-> "none"]
NoOutput == [kind |-> "none"]

(* currentSession = null *)
NoSession ==
  [id |-> NoId, name |-> NoId, startTime |-> NoTime, endTime |-> NoTime,
   transcript |-> <<>>, language |-> "none"]

VARIABLES
  isListening,      \* useState(false)
  transcript,       \* useState<TranscriptEntry[]>([])
  currentSession,   \* useState<CaptionSession | null>(null)
  error,            \* useState<string | null>(null)
  sessions,         \* useState<CaptionSession[]>([])
  language,         \* options.language
  hasRecognition,   \* recognitionRef.current is a recognition object
  beginTimeRef,     \* beginTimeRef.current
  capSession,       \* currentSession as closed over by the installed handlers
  capListening,     \* isListening as closed over by the installed handlers
  rec,              \* life cycle of the recognition object in recognitionRef
  oldRecs,          \* replaced recognition objects still stopping, with their closure
  lsList,           \* localStorage['meeting_captions']: <<>> absent, <<list>>
  lsItem,           \* localStorage['caption_session_' + id], by id
  now,              \* Date.now()
  calls,            \* history: the recognizer methods the last operation invoked
  pr,               \* history: 1 after a pause while listening, 2 after the resume that follows it
  replaced,         \* history: text of the interim entry the last result replaced
  received,         \* history: final entries received since the last startListening
  sinceStart,       \* history: what the transcript went through since the last startListening
  createdIds,       \* history: ids of the sessions startListening created
  scn,              \* history: progress along the start/he/hell/Hello./stop scenario
  budget,           \* the budget of this run
  nResults, nStarts, nLang,  \* bound counters
  timers,           \* the hook's pending 1000 ms timers, oldest first
  nErrors,          \* bound counter
  svcIsListening,   \* SpeechRecognitionService.isListening
  autoRestart,      \* SpeechRecognitionService.autoRestart
  restartTimer,     \* SpeechRecognitionService.restartTimer is set
  recognitionLang,  \* SpeechRecognitionService.recognition.lang
  recognition,      \* life cycle of SpeechRecognitionService.recognition
  timeouts,         \* the adapter's pending setTimeout callbacks
  svcCalls,         \* history: recognizer methods the adapter's last step invoked
  emitted,          \* history: callbacks the adapter's last step invoked
  scheduled,        \* history: delays of the timers the adapter's last step set
  stopped,          \* history: stop() or abort() was called since the last start()
  nTimers,          \* bound counter
  svcStartTime,     \* SpeechRecognitionService.startTime
  svcEntry,         \* history: the entry the adapter passed to onResult last
  returned,         \* history: what the last importSessions call returned
  op,               \* history: the last call made on the store
  args,             \* the arguments a formatter or a size check is called with
  output            \* what the call on args returned

vars == <<isListening, transcript, currentSession, error, sessions, language,
          hasRecognition, beginTimeRef, capSession, capListening, rec, oldRecs,
          lsList, lsItem, now, calls, pr, replaced, received, sinceStart, createdIds, scn,
          budget, nResults, nStarts, nLang, timers, nErrors, svcIsListening,
          autoRestart, restartTimer, recognitionLang, recognition, timeouts,
          svcCalls,
          emitted, scheduled, stopped, nTimers, svcStartTime, svcEntry,
          returned, op, args, output>>

hookVars == <<isListening, transcript, currentSession, error, sessions,
              language, hasRecognition, beginTimeRef, capSession, capListening>>
storeVars == <<lsList, lsItem>>
timerVars == <<timers, nErrors>>
utteranceVars == <<svcStartTime, svcEntry>>
adapterVars == <<svcIsListening, autoRestart, restartTimer, recognitionLang, recognition,
                 timeouts, svcCalls, emitted, scheduled, stopped, nTimers,
                 utteranceVars>>
importVars == <<returned, op>>
formatVars == <<args, output>>

(* --------------------------- JSON conversion --------------------------- *)
(* JSON.stringify writes a Date as its ISO string; getAllSessions turns the
   strings back into Date objects with new Date(string). *)
DateToJSON(t) == [iso |-> t]
DateFromJSON(j) == j.iso

EntryToJSON(e) ==
  [text |-> e.text, timestamp |-> DateToJSON(e.timestamp),
   startTime |-> DateToJSON(e.startTime), endTime |-> DateToJSON(e.endTime),
   confidence |-> e.confidence, isFinal |-> e.isFinal, speaker |-> e.speaker]

EntryFromJSON(j) ==
  [text |-> j.text, timestamp |-> DateFromJSON(j.timestamp),
   startTime |-> DateFromJSON(j.startTime), endTime |-> DateFromJSON(j.endTime),
   confidence |-> j.confidence, isFinal |-> j.isFinal, speaker |-> j.speaker]

SessionToJSON(s) ==
  [id |-> s.id, name |-> s.name, startTime |-> DateToJSON(s.startTime),
   endTime |-> DateToJSON(s.endTime),
   transcript |-> [i \in 1..Len(s.transcript) |-> EntryToJSON(s.transcript[i])],
   language |-> s.language]

SessionFromJSON(j) ==
  [id |-> j.id, name |-> j.name, startTime |-> DateFromJSON(j.startTime),
   endTime |-> DateFromJSON(j.endTime),
   transcript |-> [i \in 1..Len(j.transcript) |-> EntryFromJSON(j.transcript[i])],
   language |-> j.language]

(* ---------------------------- CaptionStorage --------------------------- *)
(* the JSON value null as an element of a stored or imported list *)
JSONNull == SessionToJSON([NoSession EXCEPT !.language = "null"])

(* a parsed record that has an id and no transcript member; the absence is
   written in the language field, which such a record does not have either *)
NoTranscript == "undefined"
JSONPartial(id) ==
  [SessionToJSON([NoSession EXCEPT !.id = id]) EXCEPT !.language = NoTranscript]

(* session.transcript.map(...) of getAllSessions throws on j *)
Unreadable(j) == j = JSONNull \/ j.language = NoTranscript

(* getAllSessions on a given content of the aggregate key; reading a field of
   a null element, or mapping the transcript of a record that has none,
   throws, and the catch returns [] *)
getAllSessionsOf(list) ==
  IF list = <<>> THEN <<>>
  ELSE IF \E i \in 1..Len(list[1]) : Unreadable(list[1][i]) THEN <<>>
  ELSE [i \in 1..Len(list[1]) |-> SessionFromJSON(list[1][i])]

getAllSessions == getAllSessionsOf(lsList)

findIndex(ss, id) ==
  IF \E i \in 1..Len(ss) : ss[i].id = id
  THEN CHOOSE i \in 1..Len(ss) :
         ss[i].id = id /\ \A k \in 1..(i - 1) : ss[k].id # id
  ELSE 0

getSession(id) ==
  LET ss == getAllSessions
      i == findIndex(ss, id)
  IN IF i = 0 THEN NoSession ELSE ss[i]

(* the record stored under id in a given content of the aggregate key, the
   ids stored there *)
storedSession(list, id) ==
  LET ss == getAllSessionsOf(list)
      i == findIndex(ss, id)
  IN IF i = 0 THEN NoSession ELSE ss[i]

storedIds(list) ==
  LET ss == getAllSessionsOf(list) IN {ss[i].id : i \in 1..Len(ss)}

(* mutant: the saved session is put at the end of the list, the record it
   replaces taken out *)
saveSessionListMovesToEnd(list, s) ==
  LET ss == getAllSessionsOf(list)
      upd == Append(SelectSeq(ss, LAMBDA x : x.id # s.id), s)
  IN << [k \in 1..Len(upd) |-> SessionToJSON(upd[k])] >>

(* the aggregate list written by saveSession(s) *)
saveSessionList(list, s) ==
  LET ss == getAllSessionsOf(list)
      i == findIndex(ss, s.id)
      upd == IF i > 0 THEN [ss EXCEPT ![i] = s] ELSE Append(ss, s)
  IN << [k \in 1..Len(upd) |-> SessionToJSON(upd[k])] >>

(* the per-session keys written by saveSession(s) *)
saveSessionItem(item, s) ==
  [k \in DOMAIN item \cup {s.id} |->
     IF k = s.id THEN SessionToJSON(s) ELSE item[k]]

deleteSessionList(list, id) ==
  LET ss == getAllSessionsOf(list)
      keep == SelectSeq(ss, LAMBDA s : s.id # id)
  IN << [k \in 1..Len(keep) |-> SessionToJSON(keep[k])] >>

deleteSessionItem(item, id) ==
  [k \in DOMAIN item \ {id} |-> item[k]]

(* ------------------------ transcript reconciliation -------------------- *)
IsFinalEntry(e) == e.isFinal
Finals(t) == SelectSeq(t, IsFinalEntry)

(* the text of the interim entry at the tail of t, "none" without one *)
InterimTail(t) ==
  IF t # <<>> /\ ~t[Len(t)].isFinal THEN t[Len(t)].text ELSE "none"

(* mutant: an interim result is appended without dropping the interim tail *)
ReconcileKeepsInterim(prev, entry) ==
  IF entry.isFinal THEN Finals(prev) \o <<entry>> ELSE Append(prev, entry)

(* mutant: a final result is appended without dropping the interim tail *)
ReconcileAppendsFinal(prev, entry) ==
  IF entry.isFinal THEN Append(prev, entry) ELSE Finals(prev) \o <<entry>>

(* mutant: every result replaces the last entry, final or not *)
ReconcileReplacesTail(prev, entry) ==
  IF prev = <<>> THEN <<entry>>
  ELSE SubSeq(prev, 1, Len(prev) - 1) \o <<entry>>

(* the updater passed to setTranscript in recognition.onresult *)
Reconcile(prev, entry) == Finals(prev) \o <<entry>>

(* the TranscriptEntry built in recognition.onresult *)
MakeEntry(r, begin, t) ==
  [text |-> r.transcript, timestamp |-> t,
   startTime |-> IF begin = NoTime THEN t ELSE begin, endTime |-> t,
   confidence |-> r.confidence, isFinal |-> r.isFinal, speaker |-> "User"]

(* ----------------------- the recognition object ------------------------ *)
(* recognition.start() throws InvalidStateError unless the object is idle *)
StartThrows(r) == r # "idle"
AfterStart(r) == IF r = "idle" THEN "starting" ELSE r
(* recognition.stop() is ignored by an idle object; an object stopped while
   running may still return a result for the audio it captured ("stopping"),
   one stopped before its start event only ends ("ending"), and so does one
   that has delivered an error event ("failed") *)
AfterStop(r) ==
  IF r = "running" THEN "stopping"
  ELSE IF r = "starting" THEN "ending"
  ELSE r

(* ------------------------------ history -------------------------------- *)
ScnOff == 0 - 1        \* the run has left the scenario

(* sinceStart: "none" before the first startListening; "results" while the
   in-memory transcript was touched by recognition results only; "deleted"
   once the current session was deleted; "edited" once loadSession was
   invoked, "cleared" once clearTranscript was *)
Edited == IF sinceStart = "none" THEN "none" ELSE "edited"
Cleared == IF sinceStart = "none" THEN "none" ELSE "cleared"
Deleted == IF sinceStart = "results" THEN "deleted" ELSE sinceStart

(* ------------------------------- Init ---------------------------------- *)
(* The state after the hook has mounted: the mount effect has created the
   recognition object (when the browser has one), installed the handlers and
   loaded the stored sessions. *)
Init ==
  /\ hasRecognition \in BOOLEAN
  /\ isListening = FALSE
  /\ transcript = <<>>
  /\ currentSession = NoSession
  /\ error = IF hasRecognition THEN NoError
             ELSE "Speech recognition not supported in this browser"
  /\ sessions = <<>>
  /\ language = "en"
  /\ beginTimeRef = NoTime
  /\ capSession = NoSession
  /\ capListening = FALSE
  /\ rec = "idle"
  /\ oldRecs = {}
  /\ lsList = <<>>
  /\ lsItem = <<>>
  /\ now = 0
  /\ calls = <<>>
  /\ pr = 0
  /\ replaced = "none"
  /\ received = <<>>
  /\ sinceStart = "none"
  /\ createdIds = {}
  /\ scn = 0
  /\ nResults = 0
  /\ nStarts = 0
  /\ nLang = 0
  /\ budget \in Budgets
  /\ timers = <<>>
  /\ nErrors = 0
  /\ svcIsListening = FALSE
  /\ autoRestart = TRUE
  /\ restartTimer = FALSE
  /\ recognitionLang = "en"
  /\ recognition = "idle"
  /\ timeouts = <<>>
  /\ svcCalls = <<>>
  /\ emitted = <<>>
  /\ scheduled = <<>>
  /\ stopped = FALSE
  /\ nTimers = 0
  /\ svcStartTime = NoTime
  /\ svcEntry = NoEntry
  /\ returned = "none"
  /\ op = "none"
  /\ args = NoArgs
  /\ output = NoOutput

(* the clock advances *)
Tick ==
  /\ now < budget.clock
  /\ now' = now + 1
  /\ UNCHANGED <<hookVars, storeVars, rec, oldRecs, calls, pr, replaced, received, sinceStart,
                 createdIds, scn, nResults, nStarts, nLang, budget>>
  /\ UNCHANGED <<timerVars, adapterVars, importVars, formatVars>>

(* --------------------------- hook operations --------------------------- *)
(* mutant: the new session adopts the entries of the in-memory transcript *)
NewSessionKeepsTranscript(t, lang) ==
  [id |-> t, name |-> t, startTime |-> t, endTime |-> t,
   transcript |-> transcript, language |-> lang]

(* the session startListening creates at time t: id session_<t>, name
   Meeting <t> *)
NewSession(t, lang) ==
  [id |-> t, name |-> t, startTime |-> t, endTime |-> t, transcript |-> <<>>,
   language |-> lang]

startListening ==
  /\ IF ~hasRecognition
       THEN /\ error' = "Speech recognition not initialized"
            /\ calls' = <<>>
            /\ UNCHANGED <<currentSession, transcript, rec, received,
                           sinceStart, createdIds, nStarts, budget>>
       ELSE LET newSession == NewSession(now, language)
            IN /\ nStarts < budget.starts
               /\ currentSession' = newSession
               /\ transcript' = <<>>
               /\ rec' = AfterStart(rec)
               /\ error' = IF StartThrows(rec)
                             THEN "Failed to start speech recognition"
                             ELSE error
               /\ calls' = <<"start">>
               /\ received' = <<>>
               /\ sinceStart' = "results"
               /\ createdIds' = createdIds \cup {newSession.id}
               /\ nStarts' = nStarts + 1
  /\ scn' = IF scn = 0 /\ hasRecognition THEN 1 ELSE ScnOff
  /\ pr' = 0
  /\ replaced' = "none"
  /\ UNCHANGED <<isListening, sessions, language, hasRecognition, beginTimeRef,
                 capSession, capListening, oldRecs, storeVars, now, nResults,
                 nLang, budget>>
  /\ UNCHANGED <<timerVars, adapterVars, importVars, formatVars>>

stopListening ==
  /\ rec' = IF hasRecognition THEN AfterStop(rec) ELSE rec
  /\ calls' = IF hasRecognition THEN <<"stop">> ELSE <<>>
  /\ IF currentSession # NoSession
       THEN /\ lsList' = saveSessionList(lsList, currentSession)
            /\ lsItem' = saveSessionItem(lsItem, currentSession)
            /\ sessions' = getAllSessionsOf(lsList')
       ELSE UNCHANGED <<lsList, lsItem, sessions>>
  /\ scn' = IF scn = 4 THEN 5 ELSE ScnOff
  /\ pr' = 0
  /\ replaced' = "none"
  /\ UNCHANGED <<isListening, transcript, currentSession, error, language,
                 hasRecognition, beginTimeRef, capSession, capListening,
                 oldRecs, now, received, sinceStart, createdIds, nResults,
                 nStarts, nLang, budget>>
  /\ UNCHANGED <<timerVars, adapterVars, importVars, formatVars>>

pauseListening ==
  /\ IF hasRecognition /\ isListening
       THEN /\ rec' = AfterStop(rec)
            /\ isListening' = FALSE
            /\ calls' = <<"stop">>
       ELSE /\ UNCHANGED <<rec, isListening>>
            /\ calls' = <<>>
  /\ scn' = ScnOff
  /\ pr' = IF hasRecognition /\ isListening THEN 1 ELSE 0
  /\ replaced' = "none"
  /\ UNCHANGED <<transcript, currentSession, error, sessions, language,
                 hasRecognition, beginTimeRef, capSession, capListening,
                 oldRecs, storeVars, now, received, sinceStart, createdIds,
                 nResults, nStarts, nLang, budget>>
  /\ UNCHANGED <<timerVars, adapterVars, importVars, formatVars>>

(* mutant: resume restarts as startListening does, with a new session and an
   empty transcript *)
resumeListeningRestarts ==
  /\ IF hasRecognition /\ ~isListening
       THEN /\ rec' = AfterStart(rec)
            /\ calls' = <<"start">>
            /\ currentSession' = NewSession(now, language)
            /\ transcript' = <<>>
       ELSE /\ UNCHANGED <<rec, currentSession, transcript>>
            /\ calls' = <<>>
  /\ scn' = ScnOff
  /\ pr' = IF pr = 1 THEN 2 ELSE 0
  /\ replaced' = "none"
  /\ UNCHANGED <<isListening, error, sessions, language, hasRecognition,
                 beginTimeRef, capSession, capListening, oldRecs, storeVars,
                 now, received, sinceStart, createdIds, nResults, nStarts,
                 nLang, budget>>
  /\ UNCHANGED <<timerVars, adapterVars, importVars, formatVars>>

resumeListening ==
  /\ IF hasRecognition /\ ~isListening
       THEN /\ rec' = AfterStart(rec)
            /\ calls' = <<"start">>
       ELSE /\ UNCHANGED rec
            /\ calls' = <<>>
  /\ scn' = ScnOff
  /\ pr' = IF pr = 1 THEN 2 ELSE 0
  /\ replaced' = "none"
  /\ UNCHANGED <<hookVars, oldRecs, storeVars, now, received, sinceStart,
                 createdIds, nResults, nStarts, nLang, budget>>
  /\ UNCHANGED <<timerVars, adapterVars, importVars, formatVars>>

(* mutant: the transcript and the session are emptied in memory, the emptied
   session is not stored *)
clearTranscriptUnsaved ==
  /\ transcript' = <<>>
  /\ currentSession' = IF currentSession # NoSession
                         THEN [currentSession EXCEPT !.transcript = <<>>]
                         ELSE currentSession
  /\ calls' = <<>>
  /\ sinceStart' = Cleared
  /\ scn' = ScnOff
  /\ pr' = 0
  /\ replaced' = "none"
  /\ UNCHANGED <<isListening, error, sessions, language, hasRecognition,
                 beginTimeRef, capSession, capListening, rec, oldRecs, now,
                 storeVars, received, createdIds, nResults, nStarts, nLang,
                 budget>>
  /\ UNCHANGED <<timerVars, adapterVars, importVars, formatVars>>

clearTranscript ==
  /\ transcript' = <<>>
  /\ IF currentSession # NoSession
       THEN LET updatedSession == [currentSession EXCEPT !.transcript = <<>>]
            IN /\ currentSession' = updatedSession
               /\ lsList' = saveSessionList(lsList, updatedSession)
               /\ lsItem' = saveSessionItem(lsItem, updatedSession)
       ELSE UNCHANGED <<currentSession, lsList, lsItem>>
  /\ calls' = <<>>
  /\ sinceStart' = Cleared
  /\ scn' = ScnOff
  /\ pr' = 0
  /\ replaced' = "none"
  /\ UNCHANGED <<isListening, error, sessions, language, hasRecognition,
                 beginTimeRef, capSession, capListening, rec, oldRecs, now,
                 received, createdIds, nResults, nStarts, nLang, budget>>
  /\ UNCHANGED <<timerVars, adapterVars, importVars, formatVars>>

loadSession(sessionId) ==
  LET session == getSession(sessionId)
  IN /\ IF session # NoSession
          THEN /\ currentSession' = session
               /\ transcript' = session.transcript
          ELSE UNCHANGED <<currentSession, transcript>>
     /\ calls' = <<>>
     /\ sinceStart' = Edited
     /\ scn' = ScnOff
     /\ pr' = 0
     /\ replaced' = "none"
     /\ UNCHANGED <<isListening, error, sessions, language, hasRecognition,
                    beginTimeRef, capSession, capListening, rec, oldRecs,
                    storeVars, now, received, createdIds, nResults, nStarts,
                    nLang, budget>>
     /\ UNCHANGED <<timerVars, adapterVars, importVars, formatVars>>

deleteSession(sessionId) ==
  /\ lsList' = deleteSessionList(lsList, sessionId)
  /\ lsItem' = deleteSessionItem(lsItem, sessionId)
  /\ sessions' = getAllSessionsOf(lsList')
  /\ IF currentSession # NoSession /\ currentSession.id = sessionId
       THEN /\ currentSession' = NoSession
            /\ transcript' = <<>>
            /\ sinceStart' = Deleted
       ELSE /\ UNCHANGED <<currentSession, transcript>>
            /\ UNCHANGED sinceStart
  /\ calls' = <<>>
  /\ scn' = ScnOff
  /\ pr' = 0
  /\ replaced' = "none"
  /\ UNCHANGED <<isListening, error, language, hasRecognition, beginTimeRef,
                 capSession, capListening, rec, oldRecs, now, received,
                 createdIds, nResults, nStarts, nLang, budget>>
  /\ UNCHANGED <<timerVars, adapterVars, importVars, formatVars>>

(* The language option changes: the effect's cleanup stops the recognition
   object, and the effect runs again, creating a new recognition object whose
   handlers close over the state of this render. *)
useEffect(lang) ==
  /\ lang # language
  /\ nLang < budget.langs
  /\ nLang' = nLang + 1
  /\ language' = lang
  /\ IF hasRecognition
       THEN /\ oldRecs' = IF AfterStop(rec) \in {"stopping", "ending", "failed"}
                            THEN oldRecs \cup
                                   {[cap |-> capSession, st |-> AfterStop(rec)]}
                            ELSE oldRecs
            /\ rec' = "idle"
            /\ capSession' = currentSession
            /\ capListening' = isListening
            /\ error' = error
            /\ calls' = <<"stop">>
       ELSE /\ error' = "Speech recognition not supported in this browser"
            /\ calls' = <<>>
            /\ UNCHANGED <<oldRecs, rec, capSession, capListening>>
  /\ sessions' = getAllSessions
  /\ scn' = ScnOff
  /\ pr' = 0
  /\ replaced' = "none"
  /\ UNCHANGED <<isListening, transcript, currentSession, hasRecognition,
                 beginTimeRef, storeVars, now, received, sinceStart,
                 createdIds, nResults, nStarts, budget>>
  /\ UNCHANGED <<timerVars, adapterVars, importVars, formatVars>>

(* ------------------------- recognition handlers ------------------------ *)
(* recognition.onresult with one result at event.resultIndex, run by a
   handler that closed over the session cap *)
onresult(cap, r) ==
  LET entry == MakeEntry(r, beginTimeRef, now)
  IN /\ nResults < budget.results
     /\ nResults' = nResults + 1
     /\ transcript' = Reconcile(transcript, entry)
     /\ beginTimeRef' = IF r.isFinal THEN now ELSE beginTimeRef
     /\ IF r.isFinal /\ cap # NoSession
          THEN LET updatedSession ==
                     [cap EXCEPT !.transcript = Append(cap.transcript, entry),
                                 !.endTime = now]
               IN /\ currentSession' = updatedSession
                  /\ lsList' = saveSessionList(lsList, updatedSession)
                  /\ lsItem' = saveSessionItem(lsItem, updatedSession)
          ELSE UNCHANGED <<currentSession, lsList, lsItem>>
     /\ received' = IF r.isFinal THEN Append(received, entry) ELSE received
     /\ UNCHANGED <<isListening, error, sessions, language, hasRecognition,
                    capSession, capListening, now, sinceStart, createdIds,
                    nStarts, nLang, budget>>
     /\ UNCHANGED <<timerVars, adapterVars, importVars, formatVars>>

(* recognition.onend run by a handler that closed over the session cap *)
onend(cap) ==
  /\ isListening' = FALSE
  /\ IF cap # NoSession
       THEN /\ lsList' = saveSessionList(lsList, cap)
            /\ lsItem' = saveSessionItem(lsItem, cap)
       ELSE UNCHANGED <<lsList, lsItem>>
  /\ UNCHANGED <<transcript, currentSession, error, sessions, language,
                 hasRecognition, beginTimeRef, capSession, capListening, now,
                 received, sinceStart, createdIds, nResults, nStarts, nLang, budget>>
  /\ UNCHANGED <<timerVars, adapterVars, importVars, formatVars>>

ScnResult(r) ==
  IF scn = 1 /\ r.transcript = "he" /\ ~r.isFinal THEN 2
  ELSE IF scn = 2 /\ r.transcript = "hell" /\ ~r.isFinal THEN 3
  ELSE IF scn = 3 /\ r.transcript = "Hello." /\ r.isFinal THEN 4
  ELSE ScnOff

(* the recognition object in recognitionRef delivers its start event *)
OnStart ==
  /\ rec = "starting"
  /\ rec' = "running"
  /\ isListening' = TRUE
  /\ error' = NoError
  /\ beginTimeRef' = now
  /\ calls' = <<>>
  /\ UNCHANGED <<transcript, currentSession, sessions, language,
                 hasRecognition, capSession, capListening, oldRecs, storeVars,
                 now, received, sinceStart, createdIds, scn, nResults, nStarts,
                 nLang, budget>>
  /\ pr' = 0
  /\ replaced' = "none"
  /\ UNCHANGED <<timerVars, adapterVars, importVars, formatVars>>

(* ... a result event; a stopping object may still return a result for the
   audio it has captured *)
OnResult(r) ==
  /\ rec \in {"running", "stopping"}
  /\ onresult(capSession, r)
  /\ calls' = <<>>
  /\ scn' = ScnResult(r)
  /\ pr' = 0
  /\ replaced' = InterimTail(transcript)
  /\ UNCHANGED <<rec, oldRecs>>

(* ... its end event, after a stop or on its own *)
OnEnd ==
  /\ rec \in {"running", "stopping", "ending", "failed"}
  /\ rec' = "idle"
  /\ onend(capSession)
  /\ calls' = <<>>
  /\ scn' = ScnOff
  /\ pr' = 0
  /\ replaced' = "none"
  /\ UNCHANGED oldRecs

(* recognition.onerror run by a handler that closed over the listening flag
   cap: the error is shown and, for three kinds of error, a timer is set that
   is to start the recognition again after 1000 ms *)
RestartKinds == {"no-speech", "audio-capture", "network"}

(* mutant: the error "aborted" is not shown *)
onerrorQuietAbort(cap, kind) ==
  /\ error' = IF kind = "aborted" THEN error ELSE kind
  /\ timers' = IF kind \in RestartKinds
                 THEN Append(timers, [kind |-> kind, listening |-> cap])
                 ELSE timers
  /\ UNCHANGED <<isListening, transcript, currentSession, sessions, language,
                 hasRecognition, beginTimeRef, capSession, capListening,
                 storeVars, now, received, sinceStart, createdIds, nResults,
                 nStarts, nLang, budget, adapterVars, importVars, formatVars>>

onerror(cap, kind) ==
  /\ error' = kind
  /\ timers' = IF kind \in RestartKinds
                 THEN Append(timers, [kind |-> kind, listening |-> cap])
                 ELSE timers
  /\ UNCHANGED <<isListening, transcript, currentSession, sessions, language,
                 hasRecognition, beginTimeRef, capSession, capListening,
                 storeVars, now, received, sinceStart, createdIds, nResults,
                 nStarts, nLang, budget, adapterVars, importVars, formatVars>>

(* ... an error event; the object ends after it *)
OnError(kind) ==
  /\ rec \in {"starting", "running"}
  /\ nErrors < budget.errors
  /\ nErrors' = nErrors + 1
  /\ rec' = "failed"
  /\ onerror(capListening, kind)
  /\ calls' = <<>>
  /\ scn' = ScnOff
  /\ pr' = 0
  /\ replaced' = "none"
  /\ UNCHANGED oldRecs

(* the oldest timer set by recognition.onerror fires: it starts the object in
   recognitionRef when the handler that set it had closed over isListening =
   true; an exception of start() is not caught *)
TimerFires ==
  /\ timers # <<>>
  /\ timers' = Tail(timers)
  /\ IF hasRecognition /\ Head(timers).listening
       THEN /\ rec' = AfterStart(rec)
            /\ calls' = <<"start">>
       ELSE /\ UNCHANGED rec
            /\ calls' = <<>>
  /\ scn' = ScnOff
  /\ pr' = 0
  /\ replaced' = "none"
  /\ UNCHANGED <<hookVars, oldRecs, storeVars, now, received, sinceStart,
                 createdIds, nResults, nStarts, nLang, nErrors, budget,
                 adapterVars, importVars, formatVars>>

(* a replaced recognition object, stopped by the effect's cleanup, delivers
   a last result to the handlers it was created with *)
OldOnResult(old, r) ==
  /\ old \in oldRecs
  /\ old.st = "stopping"
  /\ onresult(old.cap, r)
  /\ calls' = <<>>
  /\ scn' = ScnOff
  /\ pr' = 0
  /\ replaced' = InterimTail(transcript)
  /\ UNCHANGED <<rec, oldRecs>>

(* ... and its end event *)
OldOnEnd(old) ==
  /\ old \in oldRecs
  /\ oldRecs' = oldRecs \ {old}
  /\ onend(old.cap)
  /\ calls' = <<>>
  /\ scn' = ScnOff
  /\ pr' = 0
  /\ replaced' = "none"
  /\ UNCHANGED rec

SessionIds == 0..budget.clock

Next ==
  \/ Tick
  \/ startListening
  \/ stopListening
  \/ pauseListening
  \/ resumeListening
  \/ clearTranscript
  \/ \E id \in SessionIds : loadSession(id)
  \/ \E id \in SessionIds : deleteSession(id)
  \/ \E lang \in Languages : useEffect(lang)
  \/ OnStart
  \/ \E r \in RecognitionResults : OnResult(r)
  \/ OnEnd
  \/ \E kind \in ErrorKinds : OnError(kind)
  \/ TimerFires
  \/ \E old \in oldRecs : \E r \in RecognitionResults : OldOnResult(old, r)
  \/ \E old \in oldRecs : OldOnEnd(old)

Spec == Init /\ [][Next]_vars

(* ==================== result events with several results =============== *)
(* recognition.onresult loops over event.results from event.resultIndex to
   the end of the list.  Within one run of the handler every iteration builds
   its entry from beginTimeRef.current and from the currentSession the
   handler closed over, and passes an updater to setTranscript.  The write to
   beginTimeRef.current is in the updater: React runs the queued updaters in
   order when it renders, after the handler has returned; the first updater
   of an event may be run at once, inside setTranscript, when the component
   has no update pending. *)
MaxBatch == 3          \* results in one result event

(* a run of the hook with result events of several results while the clock
   advances, the language option changing once *)
BatchBudget ==
  [results |-> MaxResults, starts |-> 1, langs |-> MaxLangChanges,
   clock |-> MaxClock, errors |-> 0, timers |-> 0]

(* event.results and event.resultIndex (counted from 0) *)
ResultEvents ==
  {[results |-> rs, resultIndex |-> i] :
     rs \in UNION {[1..n -> RecognitionResults] : n \in 2..MaxBatch},
     i \in 0..1}

(* the results the loop visits *)
Visited(ev) == SubSeq(ev.results, ev.resultIndex + 1, Len(ev.results))

(* the entries the iterations build: beginTimeRef.current is what it was
   when the event arrived, but when the updater of a first, final result
   has run at once *)
EventEntries(rs, eager) ==
  [k \in 1..Len(rs) |->
     MakeEntry(rs[k],
               IF k > 1 /\ eager /\ rs[1].isFinal THEN now ELSE beginTimeRef,
               now)]

(* the queued updaters of setTranscript applied in order *)
RECURSIVE ReconcileAll(_, _)
ReconcileAll(prev, entries) ==
  IF entries = <<>> THEN prev
  ELSE ReconcileAll(Reconcile(prev, Head(entries)), Tail(entries))

(* the updatedSession of an iteration with a final result: built from the
   session the handler closed over *)
UpdatedSession(cap, entry) ==
  [cap EXCEPT !.transcript = Append(cap.transcript, entry), !.endTime = now]

(* storage.current.saveSession(updatedSession) of every iteration with a
   final result *)
RECURSIVE saveUpdated(_, _, _)
saveUpdated(st, cap, finals) ==
  IF finals = <<>> THEN st
  ELSE LET updatedSession == UpdatedSession(cap, Head(finals))
       IN saveUpdated([list |-> saveSessionList(st.list, updatedSession),
                       item |-> saveSessionItem(st.item, updatedSession)],
                      cap, Tail(finals))

onresultEvent(cap, ev, eager) ==
  LET rs == Visited(ev)
      entries == EventEntries(rs, eager)
      finals == Finals(entries)
      st == saveUpdated([list |-> lsList, item |-> lsItem], cap, finals)
  IN /\ rs # <<>>
     /\ nResults + Len(rs) <= budget.results
     /\ nResults' = nResults + Len(rs)
     /\ transcript' = ReconcileAll(transcript, entries)
     /\ beginTimeRef' = IF finals # <<>> THEN now ELSE beginTimeRef
     /\ IF finals # <<>> /\ cap # NoSession
          THEN /\ currentSession' = UpdatedSession(cap, finals[Len(finals)])
               /\ lsList' = st.list
               /\ lsItem' = st.item
          ELSE UNCHANGED <<currentSession, lsList, lsItem>>
     /\ received' = received \o finals
     /\ UNCHANGED <<isListening, error, sessions, language, hasRecognition,
                    capSession, capListening, now, sinceStart, createdIds,
                    nStarts, nLang, budget>>
     /\ UNCHANGED <<timerVars, adapterVars, importVars, formatVars>>

(* the recognition object in recognitionRef delivers a result event with
   several results *)
OnResultEvent(ev, eager) ==
  /\ rec \in {"running", "stopping"}
  /\ onresultEvent(capSession, ev, eager)
  /\ calls' = <<>>
  /\ scn' = ScnOff
  /\ pr' = 0
  /\ replaced' = InterimTail(transcript)
  /\ UNCHANGED <<rec, oldRecs>>

InitBatch ==
  /\ hasRecognition = TRUE
  /\ isListening = FALSE
  /\ transcript = <<>>
  /\ currentSession = NoSession
  /\ error = NoError
  /\ sessions = <<>>
  /\ language = "en"
  /\ beginTimeRef = NoTime
  /\ capSession = NoSession
  /\ capListening = FALSE
  /\ rec = "idle"
  /\ oldRecs = {}
  /\ lsList = <<>>
  /\ lsItem = <<>>
  /\ now = 0
  /\ calls = <<>>
  /\ pr = 0
  /\ replaced = "none"
  /\ received = <<>>
  /\ sinceStart = "none"
  /\ createdIds = {}
  /\ scn = 0
  /\ nResults = 0
  /\ nStarts = 0
  /\ nLang = 0
  /\ budget = BatchBudget
  /\ timers = <<>>
  /\ nErrors = 0
  /\ svcIsListening = FALSE
  /\ autoRestart = TRUE
  /\ restartTimer = FALSE
  /\ recognitionLang = "en"
  /\ recognition = "idle"
  /\ timeouts = <<>>
  /\ svcCalls = <<>>
  /\ emitted = <<>>
  /\ scheduled = <<>>
  /\ stopped = FALSE
  /\ nTimers = 0
  /\ svcStartTime = NoTime
  /\ svcEntry = NoEntry
  /\ returned = "none"
  /\ op = "none"
  /\ args = NoArgs
  /\ output = NoOutput

NextBatch ==
  \/ Tick
  \/ startListening
  \/ \E lang \in Languages : useEffect(lang)
  \/ OnStart
  \/ \E r \in RecognitionResults : OnResult(r)
  \/ \E ev \in ResultEvents : \E eager \in BOOLEAN : OnResultEvent(ev, eager)
  \/ OnEnd

SpecBatch == InitBatch /\ [][NextBatch]_vars

(* ===================== SpeechRecognitionService ======================== *)
(* The adapter of lib/captions/speechRecognition.ts owns one recognition
   object.  Its timers are the callbacks it passed to setTimeout and that have
   neither run nor been cleared: what the callback is for (kind), its delay,
   whether restartTimer holds its handle (tracked), and, as history, whether
   stop() or abort() was called since it was set (stale).  Timers fire in any
   order. *)
EndDelay == 1000
NoSpeechDelay == 500
NetworkDelay == 2000
LanguageDelay == 100

Timeout(kind, delay, tracked) ==
  [kind |-> kind, delay |-> delay, tracked |-> tracked, stale |-> FALSE]

Callback(cb, arg) == [cb |-> cb, arg |-> arg]

(* everything but the adapter *)
useCaptionsVars ==
  <<hookVars, rec, oldRecs, storeVars, now, calls, pr, replaced, received,
    sinceStart, createdIds, scn, budget, nResults, nStarts, nLang, timerVars,
    importVars, formatVars>>

(* recognition.abort() is ignored by an object that is idle or about to end;
   an aborted object delivers the error "aborted" or only its end event *)
AfterAbort(r) ==
  IF r \in {"starting", "running", "stopping"} THEN "aborting" ELSE r

(* clearTimeout(this.restartTimer) *)
ClearRestartTimer(ts) == SelectSeq(ts, LAMBDA t : ~t.tracked)
(* a handle written over restartTimer is lost *)
Untrack(ts) == [i \in 1..Len(ts) |-> [ts[i] EXCEPT !.tracked = FALSE]]
MarkStale(ts) == [i \in 1..Len(ts) |-> [ts[i] EXCEPT !.stale = TRUE]]
RemoveAt(ts, i) == SubSeq(ts, 1, i - 1) \o SubSeq(ts, i + 1, Len(ts))

(* the adapter state after the adapter was constructed in a browser that has
   the recognition interface *)
InitAdapter ==
  /\ hasRecognition = TRUE
  /\ isListening = FALSE
  /\ transcript = <<>>
  /\ currentSession = NoSession
  /\ error = NoError
  /\ sessions = <<>>
  /\ language = "en"
  /\ beginTimeRef = NoTime
  /\ capSession = NoSession
  /\ capListening = FALSE
  /\ rec = "idle"
  /\ oldRecs = {}
  /\ lsList = <<>>
  /\ lsItem = <<>>
  /\ now = 0
  /\ calls = <<>>
  /\ pr = 0
  /\ replaced = "none"
  /\ received = <<>>
  /\ sinceStart = "none"
  /\ createdIds = {}
  /\ scn = 0
  /\ nResults = 0
  /\ nStarts = 0
  /\ nLang = 0
  /\ budget \in {AdapterBudget, UtteranceBudget}
  /\ timers = <<>>
  /\ nErrors = 0
  /\ svcIsListening = FALSE
  /\ autoRestart = TRUE
  /\ restartTimer = FALSE
  /\ recognitionLang = "en"
  /\ recognition = "idle"
  /\ timeouts = <<>>
  /\ svcCalls = <<>>
  /\ emitted = <<>>
  /\ scheduled = <<>>
  /\ stopped = FALSE
  /\ nTimers = 0
  /\ svcStartTime = NoTime
  /\ svcEntry = NoEntry
  /\ returned = "none"
  /\ op = "none"
  /\ args = NoArgs
  /\ output = NoOutput

(* start(), called by the client *)
start ==
  /\ restartTimer' = FALSE
  /\ timeouts' = ClearRestartTimer(timeouts)
  /\ recognition' = AfterStart(recognition)
  /\ svcCalls' = <<"start">>
  /\ emitted' = <<>>
  /\ scheduled' = <<>>
  /\ stopped' = FALSE
  /\ UNCHANGED <<svcIsListening, autoRestart, recognitionLang, nTimers>>
  /\ UNCHANGED <<useCaptionsVars, utteranceVars>>

stop ==
  /\ autoRestart' = FALSE
  /\ restartTimer' = FALSE
  /\ timeouts' = MarkStale(ClearRestartTimer(timeouts))
  /\ recognition' = AfterStop(recognition)
  /\ svcCalls' = <<"stop">>
  /\ emitted' = <<>>
  /\ scheduled' = <<>>
  /\ stopped' = TRUE
  /\ UNCHANGED <<svcIsListening, recognitionLang, nTimers>>
  /\ UNCHANGED <<useCaptionsVars, utteranceVars>>

abort ==
  /\ autoRestart' = FALSE
  /\ restartTimer' = FALSE
  /\ timeouts' = MarkStale(ClearRestartTimer(timeouts))
  /\ recognition' = AfterAbort(recognition)
  /\ svcCalls' = <<"abort">>
  /\ emitted' = <<>>
  /\ scheduled' = <<>>
  /\ stopped' = TRUE
  /\ UNCHANGED <<svcIsListening, recognitionLang, nTimers>>
  /\ UNCHANGED <<useCaptionsVars, utteranceVars>>

(* mutant: setLanguage only sets the language of the recognizer *)
setLanguageOnly(newLanguage) ==
  /\ recognitionLang' = newLanguage
  /\ svcCalls' = <<>>
  /\ scheduled' = <<>>
  /\ emitted' = <<>>
  /\ UNCHANGED <<svcIsListening, autoRestart, restartTimer, recognition,
                 timeouts, stopped, nTimers>>
  /\ UNCHANGED <<useCaptionsVars, utteranceVars>>

(* setLanguage(language): a listening adapter stops and sets a timer that is
   to enable auto-restart and to start again *)
setLanguage(newLanguage) ==
  /\ recognitionLang' = newLanguage
  /\ IF svcIsListening
       THEN /\ nTimers < budget.timers
            /\ nTimers' = nTimers + 1
            /\ autoRestart' = FALSE
            /\ restartTimer' = FALSE
            /\ recognition' = AfterStop(recognition)
            /\ timeouts' = Append(ClearRestartTimer(timeouts),
                                  Timeout("language", LanguageDelay, FALSE))
            /\ svcCalls' = <<"stop">>
            /\ scheduled' = <<LanguageDelay>>
       ELSE /\ svcCalls' = <<>>
            /\ scheduled' = <<>>
            /\ UNCHANGED <<nTimers, autoRestart, restartTimer, recognition,
                           timeouts>>
  /\ emitted' = <<>>
  /\ UNCHANGED <<svcIsListening, stopped>>
  /\ UNCHANGED <<useCaptionsVars, utteranceVars>>

setAutoRestart(enabled) ==
  /\ autoRestart' = enabled
  /\ svcCalls' = <<>>
  /\ emitted' = <<>>
  /\ scheduled' = <<>>
  /\ UNCHANGED <<svcIsListening, restartTimer, recognitionLang, recognition,
                 timeouts, stopped, nTimers>>
  /\ UNCHANGED <<useCaptionsVars, utteranceVars>>

(* recognition.onstart of the adapter *)
svcOnStart ==
  /\ recognition = "starting"
  /\ recognition' = "running"
  /\ svcIsListening' = TRUE
  /\ emitted' = <<Callback("onStart", "none"),
                  Callback("onStatusChange", "listening")>>
  /\ svcCalls' = <<>>
  /\ scheduled' = <<>>
  /\ svcStartTime' = now
  /\ UNCHANGED <<autoRestart, restartTimer, recognitionLang, timeouts, stopped,
                 nTimers, svcEntry>>
  /\ UNCHANGED useCaptionsVars

(* processTranscript(text) on the texts of the results: trimmed, the first
   letter in upper case, a lone "i" turned into "I", runs of white space
   turned into one space *)
processTranscript(text) ==
  CASE text = "he" -> "He"
    [] text = "hell" -> "Hell"
    [] text = "hello" -> "Hello"
    [] OTHER -> text

(* mutant: the start time of the next utterance is written into the entry
   of this one *)
svcMakeEntryLate(r, begin, t) ==
  [MakeEntry(r, begin, t) EXCEPT !.text = processTranscript(r.transcript),
                                 !.startTime = t + 1]

(* the entry recognition.onresult builds for one result at time t *)
svcMakeEntry(r, begin, t) ==
  [MakeEntry(r, begin, t) EXCEPT !.text = processTranscript(r.transcript)]

(* recognition.onresult with one result at event.resultIndex *)
svcOnResult(r) ==
  /\ recognition \in {"running", "stopping"}
  /\ nResults < budget.results
  /\ nResults' = nResults + 1
  /\ svcEntry' = svcMakeEntry(r, svcStartTime, now)
  /\ svcStartTime' = IF r.isFinal THEN now ELSE svcStartTime
  /\ emitted' = <<Callback("onResult", svcEntry'.text)>>
  /\ svcCalls' = <<>>
  /\ scheduled' = <<>>
  /\ UNCHANGED <<svcIsListening, autoRestart, restartTimer, recognitionLang,
                 recognition, timeouts, stopped, nTimers>>
  /\ UNCHANGED <<hookVars, rec, oldRecs, storeVars, now, calls, pr, replaced,
                 received, sinceStart, createdIds, scn, budget, nStarts, nLang,
                 timerVars, importVars, formatVars>>

(* the test that guards the restart in recognition.onend; listening is
   this.isListening as the handler has just set it *)
(* mutant: the end handler sets the restart timer whatever the flags are *)
RestartOnEndAlways(auto, listening) == TRUE

RestartOnEnd(auto, listening) == auto /\ listening

(* recognition.onend of the adapter *)
svcOnEnd ==
  /\ recognition \in {"running", "stopping", "ending", "failed", "aborting"}
  /\ recognition' = "idle"
  /\ svcIsListening' = FALSE
  /\ emitted' = <<Callback("onEnd", "none"),
                  Callback("onStatusChange", "stopped")>>
  /\ IF RestartOnEnd(autoRestart, svcIsListening')
       THEN /\ restartTimer' = TRUE
            /\ timeouts' = Append(Untrack(timeouts),
                                  Timeout("end", EndDelay, TRUE))
            /\ scheduled' = <<EndDelay>>
       ELSE /\ scheduled' = <<>>
            /\ UNCHANGED <<restartTimer, timeouts>>
  /\ svcCalls' = <<>>
  /\ UNCHANGED <<autoRestart, recognitionLang, stopped, nTimers>>
  /\ UNCHANGED <<useCaptionsVars, utteranceVars>>

(* the onError calls of recognition.onerror: the error as the recognizer names
   it, then the message of its kind *)
ErrorCallbacks(kind) ==
  <<Callback("onError", kind), Callback("onStatusChange", "error")>> \o
  (IF kind = "audio-capture"
     THEN <<Callback("onError", "Microphone not available")>>
   ELSE IF kind = "not-allowed"
     THEN <<Callback("onError", "Microphone permission denied")>>
   ELSE IF kind = "network"
     THEN <<Callback("onError", "Network error")>>
   ELSE <<>>)

(* the delay of the restart recognition.onerror sets for a kind of error *)
(* mutant: a network error sets no restart *)
RestartDelaysNoSpeechOnly ==
  [kind \in ErrorKinds |->
     IF kind = "no-speech" THEN <<NoSpeechDelay>> ELSE <<>>]

RestartDelays ==
  [kind \in ErrorKinds |->
     IF kind = "no-speech" THEN <<NoSpeechDelay>>
     ELSE IF kind = "network" THEN <<NetworkDelay>>
     ELSE <<>>]

(* recognition.onerror of the adapter; the object ends after the error *)
svcOnError(kind) ==
  /\ \/ recognition \in {"starting", "running"}
     \/ recognition = "aborting" /\ kind = "aborted"
  /\ nTimers < budget.timers
  /\ nTimers' = nTimers + 1
  /\ recognition' = "failed"
  /\ emitted' = ErrorCallbacks(kind)
  /\ scheduled' = IF autoRestart THEN RestartDelays[kind] ELSE <<>>
  /\ timeouts' = timeouts \o
                   [i \in 1..Len(scheduled') |->
                      Timeout(kind, scheduled'[i], FALSE)]
  /\ svcCalls' = <<>>
  /\ UNCHANGED <<svcIsListening, autoRestart, restartTimer, recognitionLang,
                 stopped>>
  /\ UNCHANGED <<useCaptionsVars, utteranceVars>>

(* a pending timer fires: the timer of setLanguage enables auto-restart, and
   every timer calls start() *)
TimeoutFires(i) ==
  /\ i \in 1..Len(timeouts)
  /\ autoRestart' = IF timeouts[i].kind = "language" THEN TRUE ELSE autoRestart
  /\ restartTimer' = FALSE
  /\ timeouts' = ClearRestartTimer(RemoveAt(timeouts, i))
  /\ recognition' = AfterStart(recognition)
  /\ svcCalls' = <<"start">>
  /\ emitted' = <<>>
  /\ scheduled' = <<>>
  /\ stopped' = FALSE
  /\ UNCHANGED <<svcIsListening, recognitionLang, nTimers>>
  /\ UNCHANGED <<useCaptionsVars, utteranceVars>>

NextAdapter ==
  \/ start
  \/ stop
  \/ abort
  \/ \E newLanguage \in Languages : setLanguage(newLanguage)
  \/ \E enabled \in BOOLEAN : setAutoRestart(enabled)
  \/ svcOnStart
  \/ svcOnEnd
  \/ \E kind \in ErrorKinds : svcOnError(kind)
  \/ \E i \in DOMAIN timeouts : TimeoutFires(i)
  \/ \E r \in RecognitionResults : svcOnResult(r)
  \/ Tick

SpecAdapter == InitAdapter /\ [][NextAdapter]_vars

(* the timers of the browser fire: a callback passed to setTimeout and not
   cleared runs after its delay *)
SpecAdapterFair ==
  SpecAdapter /\ WF_vars(\E i \in DOMAIN timeouts : TimeoutFires(i))

(* a page that mounts the hook or constructs the adapter *)
InitCaptions == Init \/ InitAdapter

NextCaptions ==
  \/ budget.timers = 0 /\ Next
  \/ budget.timers > 0 /\ NextAdapter

SpecCaptions == InitCaptions /\ [][NextCaptions]_vars

(* ======================= CaptionStorage import ========================= *)
(* The store as the history panel uses it: importSessions on the text of a
   file, and deleteSession.  An imported text is modelled by what JSON.parse
   makes of it: a parse error ("invalid"), a value that is not an array
   ("object"), or an array whose elements are session records as
   exportSessions writes them, or null. *)
ImportIds == 0..1

ImportEntry == MakeEntry(Result("hello", TRUE), NoTime, 0)

ImportSessions ==
  {SessionToJSON([NewSession(id, "en") EXCEPT !.transcript = t]) :
     id \in ImportIds, t \in {<<>>, <<ImportEntry>>}}

ImportElements ==
  ImportSessions \cup {JSONNull} \cup {JSONPartial(id) : id \in ImportIds}

(* the sessions saveSession is called with: no entry, one entry, and two
   entries with different times *)
LaterEntry == MakeEntry(Result("Hello.", TRUE), 0, 1)

StoreSessions ==
  {[NewSession(id, "en") EXCEPT !.transcript = t] :
     id \in ImportIds, t \in {<<>>, <<ImportEntry>>, <<ImportEntry, LaterEntry>>}}

(* the key-value store accesses of saveSession and deleteSession, any one of
   which may throw *)
SaveAccesses == {"getItem", "setItem list", "setItem session"}
DeleteAccesses == {"getItem", "setItem list", "removeItem session"}

Payloads ==
  {[kind |-> k, elems |-> <<>>] : k \in {"invalid", "object"}} \cup
  {[kind |-> "array", elems |-> es] :
     es \in UNION {[1..n -> ImportElements] : n \in 0..MaxImport}}

(* everything but the store and the result of the import *)
nonStoreVars ==
  <<hookVars, rec, oldRecs, now, calls, pr, replaced, received, sinceStart,
    createdIds, scn, budget, nResults, nStarts, nLang, timerVars, adapterVars,
    formatVars>>

(* mutant: saveSession that pushes without looking for the id *)
saveElementAppends(st, j) ==
  LET ss == getAllSessionsOf(st.list)
      js == [k \in 1..Len(ss) |-> SessionToJSON(ss[k])]
  IN [list |-> << Append(js, j) >>,
      item |-> [k \in DOMAIN st.item \cup {j.id} |->
                  IF k = j.id THEN j ELSE st.item[k]]]

(* saveSession(j) on a parsed element j of the imported array, as it leaves
   the two kinds of key.  For null, findIndex throws on the first stored
   session; with none stored, null is pushed and the aggregate key written
   before the key of the session throws; the catch of saveSession ends it. *)
saveElement(st, j) ==
  LET ss == getAllSessionsOf(st.list)
      js == [k \in 1..Len(ss) |-> SessionToJSON(ss[k])]
      i == findIndex(ss, j.id)
  IN IF j = JSONNull
       THEN IF ss = <<>> THEN [list |-> << <<JSONNull>> >>, item |-> st.item]
            ELSE st
     ELSE [list |-> << IF i > 0 THEN [js EXCEPT ![i] = j] ELSE Append(js, j) >>,
           item |-> [k \in DOMAIN st.item \cup {j.id} |->
                       IF k = j.id THEN j ELSE st.item[k]]]

RECURSIVE saveEach(_, _)
saveEach(st, elems) ==
  IF elems = <<>> THEN st
  ELSE saveEach(saveElement(st, Head(elems)), Tail(elems))

(* importSessions(jsonString) *)
importSessions(payload) ==
  /\ IF payload.kind = "array"
       THEN LET st == saveEach([list |-> lsList, item |-> lsItem], payload.elems)
            IN /\ lsList' = st.list
               /\ lsItem' = st.item
               /\ returned' = "true"
       ELSE /\ returned' = "false"
            /\ UNCHANGED storeVars
  /\ UNCHANGED nonStoreVars

(* handleImport of the history panel: importSessions on the text of a file *)
handleImport(payload) ==
  /\ importSessions(payload)
  /\ op' = "import"

(* exportSessions(), as JSON.parse reads the text it returns: the array of
   the sessions of getAllSessions, every Date written as its ISO string *)
exportSessions ==
  LET ss == getAllSessions
  IN [kind |-> "array", elems |-> [k \in 1..Len(ss) |-> SessionToJSON(ss[k])]]

(* importSessions(exportSessions()) on one store *)
importExported ==
  /\ importSessions(exportSessions)
  /\ op' = "import exported"

(* a store on which nothing was saved *)
EmptyStore == [list |-> <<>>, item |-> <<>>]

(* handleDelete of the history panel: deleteSession(sessionId) on the store *)
handleDelete(sessionId) ==
  /\ lsList' = deleteSessionList(lsList, sessionId)
  /\ lsItem' = deleteSessionItem(lsItem, sessionId)
  /\ returned' = "none"
  /\ op' = "delete"
  /\ UNCHANGED nonStoreVars

(* saveSession(s) on the store *)
saveSession(s) ==
  /\ lsList' = saveSessionList(lsList, s)
  /\ lsItem' = saveSessionItem(lsItem, s)
  /\ returned' = "none"
  /\ op' = "save"
  /\ UNCHANGED nonStoreVars

(* clearAllSessions(): removeItem for every session getAllSessions returns,
   then the aggregate key is set to [] *)
clearAllSessions ==
  /\ lsItem' = [k \in DOMAIN lsItem \ storedIds(lsList) |-> lsItem[k]]
  /\ lsList' = << <<>> >>
  /\ returned' = "none"
  /\ op' = "clear"
  /\ UNCHANGED nonStoreVars

(* saveSession(s) when the access `at` throws.  A getItem that throws is
   caught inside getAllSessions, which returns [], and saveSession goes on
   with that; a setItem that throws ends saveSession in its own catch, with
   what was written before it left written. *)
saveSessionFails(s, at) ==
  /\ at \in SaveAccesses
  /\ lsList' = (IF at = "getItem" THEN saveSessionList(<<>>, s)
                ELSE IF at = "setItem session" THEN saveSessionList(lsList, s)
                ELSE lsList)
  /\ lsItem' = (IF at = "getItem" THEN saveSessionItem(lsItem, s) ELSE lsItem)
  /\ returned' = "none"
  /\ op' = "save fails"
  /\ UNCHANGED nonStoreVars

(* deleteSession(sessionId) when the access `at` throws *)
deleteSessionFails(sessionId, at) ==
  /\ at \in DeleteAccesses
  /\ lsList' = (IF at = "getItem" THEN deleteSessionList(<<>>, sessionId)
                ELSE IF at = "removeItem session"
                  THEN deleteSessionList(lsList, sessionId)
                ELSE lsList)
  /\ lsItem' = (IF at = "getItem" THEN deleteSessionItem(lsItem, sessionId)
                ELSE lsItem)
  /\ returned' = "none"
  /\ op' = "delete fails"
  /\ UNCHANGED nonStoreVars

(* the store is empty and nothing has been imported *)
InitStore == InitAdapter /\ budget = AdapterBudget

NextStore ==
  \/ importExported
  \/ \E payload \in Payloads : handleImport(payload)
  \/ \E sessionId \in ImportIds : handleDelete(sessionId)
  \/ \E s \in StoreSessions : saveSession(s)
  \/ clearAllSessions

SpecStore == InitStore /\ [][NextStore]_vars

(* saveSession and deleteSession on a key-value store whose accesses may
   throw *)
NextStoreFaults ==
  \/ \E s \in StoreSessions : saveSession(s)
  \/ \E sessionId \in ImportIds : handleDelete(sessionId)
  \/ \E s \in StoreSessions, at \in SaveAccesses : saveSessionFails(s, at)
  \/ \E sessionId \in ImportIds, at \in DeleteAccesses :
       deleteSessionFails(sessionId, at)

SpecStoreFaults == InitStore /\ [][NextStoreFaults]_vars

(* ------------------------------ helpers ------------------------------- *)
IsPrefix(a, b) == Len(a) <= Len(b) /\ SubSeq(b, 1, Len(a)) = a

(* a step that delivers the result r, from the current or from a replaced
   recognition object *)
ResultStep(r) ==
  OnResult(r) \/ \E old \in oldRecs : OldOnResult(old, r)

FinalResultStep == \E r \in RecognitionResults : r.isFinal /\ ResultStep(r)

(* ============================= formatters ============================== *)
(* formatters.ts and the size check of the store are functions of their
   arguments.  A string they build is modelled as a sequence of characters
   (strings of length one; a transcript text or a fixed word is one element),
   a text of several lines as the sequence of its lines, the empty line
   being <<>>. *)
MaxEntries == 3
SizeSpread == 2

(* Number.prototype.toString of an integer *)
DigitChars == <<"0", "1", "2", "3", "4", "5", "6", "7", "8", "9">>

RECURSIVE NumberToString(_)
NumberToString(n) ==
  IF n < 0 THEN <<"-">> \o NumberToString(0 - n)
  ELSE IF n < 10 THEN <<DigitChars[n + 1]>>
  ELSE NumberToString(n \div 10) \o <<DigitChars[(n % 10) + 1]>>

(* String.prototype.padStart(width, '0') *)
RECURSIVE padStart(_, _)
padStart(str, width) ==
  IF Len(str) >= width THEN str ELSE padStart(<<"0">> \o str, width)

(* the % of JavaScript: the result has the sign of the dividend *)
Remainder(a, b) == IF a >= 0 THEN a % b ELSE 0 - ((0 - a) % b)

(* mutant: the minutes are not reduced modulo 60 *)
formatMillisecondsToTimecodeTotalMinutes(ms, separator) ==
  LET seconds == ms \div 1000
      minutes == seconds \div 60
      hours == minutes \div 60
  IN padStart(NumberToString(hours), 2) \o <<":">>
       \o padStart(NumberToString(minutes), 2) \o <<":">>
       \o padStart(NumberToString(Remainder(seconds, 60)), 2) \o <<separator>>
       \o padStart(NumberToString(Remainder(ms, 1000)), 3)

(* formatMillisecondsToTimecode(ms, separator); Math.floor of a quotient of
   integers is \div *)
formatMillisecondsToTimecode(ms, separator) ==
  LET seconds == ms \div 1000
      minutes == seconds \div 60
      hours == minutes \div 60
      displayHours == padStart(NumberToString(hours), 2)
      displayMinutes == padStart(NumberToString(Remainder(minutes, 60)), 2)
      displaySeconds == padStart(NumberToString(Remainder(seconds, 60)), 2)
      displayMs == padStart(NumberToString(Remainder(ms, 1000)), 3)
  IN displayHours \o <<":">> \o displayMinutes \o <<":">> \o displaySeconds
       \o <<separator>> \o displayMs

formatTimecodeSRT(time, startTime) ==
  formatMillisecondsToTimecode(time - startTime, ",")

formatTimecodeVTT(time, startTime) ==
  formatMillisecondsToTimecode(time - startTime, ".")

(* sessionStartTime || (transcript[0]?.startTime || new Date()) *)
StartTimeOf(t, sessionStartTime) ==
  IF sessionStartTime # NoTime THEN sessionStartTime
  ELSE IF t # <<>> THEN t[1].startTime
  ELSE now

(* the lines of one cue: its number, its two timecodes, its text and the
   empty line that follows *)
Cue(number, from, to, text) ==
  << NumberToString(number), from \o <<" --> ">> \o to, <<text>>, <<>> >>

RECURSIVE Lines(_)
Lines(cues) == IF cues = <<>> THEN <<>> ELSE Head(cues) \o Lines(Tail(cues))

(* mutant: the counter is increased for an entry that is not final, too *)
formatAsSRTCountsAll(t, sessionStartTime) ==
  LET startTime == StartTimeOf(t, sessionStartTime)
      shown == {i \in 1..Len(t) : t[i].isFinal}
      index == [k \in 1..Cardinality(shown) |->
                  CHOOSE i \in shown : Cardinality({j \in shown : j < i}) = k - 1]
  IN Lines([k \in 1..Cardinality(shown) |->
              Cue(index[k], formatTimecodeSRT(t[index[k]].startTime, startTime),
                  formatTimecodeSRT(t[index[k]].endTime, startTime),
                  t[index[k]].text)])

formatAsSRT(t, sessionStartTime) ==
  LET startTime == StartTimeOf(t, sessionStartTime)
      finals == Finals(t)
  IN Lines([k \in 1..Len(finals) |->
              Cue(k, formatTimecodeSRT(finals[k].startTime, startTime),
                  formatTimecodeSRT(finals[k].endTime, startTime),
                  finals[k].text)])

(* mutant: the cues are numbered from 0 *)
formatAsWebVTTFromZero(t, sessionStartTime) ==
  LET startTime == StartTimeOf(t, sessionStartTime)
      finals == Finals(t)
  IN << <<"WEBVTT">>, <<>> >> \o
     Lines([k \in 1..Len(finals) |->
              Cue(k - 1, formatTimecodeVTT(finals[k].startTime, startTime),
                  formatTimecodeVTT(finals[k].endTime, startTime),
                  finals[k].text)])

formatAsWebVTT(t, sessionStartTime) ==
  LET startTime == StartTimeOf(t, sessionStartTime)
      finals == Finals(t)
  IN << <<"WEBVTT">>, <<>> >> \o
     Lines([k \in 1..Len(finals) |->
              Cue(k, formatTimecodeVTT(finals[k].startTime, startTime),
                  formatTimecodeVTT(finals[k].endTime, startTime),
                  finals[k].text)])

(* Date.prototype.toLocaleTimeString() in a locale with a 24-hour clock and
   the time zone UTC: the time of day to the second; the date and the
   milliseconds are dropped *)
toLocaleTimeString(t) ==
  LET seconds == (t \div 1000) % 86400
  IN padStart(NumberToString(seconds \div 3600), 2) \o <<":">>
       \o padStart(NumberToString((seconds \div 60) % 60), 2) \o <<":">>
       \o padStart(NumberToString(seconds % 60), 2)

(* Date.prototype.toLocaleDateString(): the calendar day, written here as
   the number of days since 1 January 1970; the time of day is dropped *)
toLocaleDateString(t) == <<"day ">> \o NumberToString(t \div 86400000)

(* entry.speaker || 'Unknown'; a missing or empty speaker is "" *)
SpeakerOf(e) == IF e.speaker = "" THEN "Unknown" ELSE e.speaker

(* Array.prototype.join of blocks with '\n\n': the lines of the blocks with
   an empty line between two of them *)
RECURSIVE JoinBlocks(_)
JoinBlocks(blocks) ==
  IF blocks = <<>> THEN <<>>
  ELSE IF Len(blocks) = 1 THEN <<blocks[1]>>
  ELSE <<blocks[1], <<>>>> \o JoinBlocks(Tail(blocks))

(* Array.prototype.join of strings with a separator, on one line *)
RECURSIVE JoinWith(_, _)
JoinWith(list, sep) ==
  IF list = <<>> THEN <<>>
  ELSE IF Len(list) = 1 THEN <<list[1]>>
  ELSE <<list[1], sep>> \o JoinWith(Tail(list), sep)

(* Array.from(new Set(list)): the distinct elements in the order of their
   first occurrence *)
RECURSIVE Distinct(_)
Distinct(list) ==
  IF list = <<>> THEN <<>>
  ELSE LET d == Distinct(SubSeq(list, 1, Len(list) - 1))
           x == list[Len(list)]
       IN IF \E i \in 1..Len(d) : d[i] = x THEN d ELSE Append(d, x)

(* formatAsText: one line "[time] speaker: text" per final entry, the lines
   joined with '\n\n' *)
formatAsText(t) ==
  LET finals == Finals(t)
  IN JoinBlocks([k \in 1..Len(finals) |->
                   <<"[">> \o toLocaleTimeString(finals[k].timestamp)
                     \o <<"] ", SpeakerOf(finals[k]), ": ", finals[k].text>>])

(* the forEach of formatTranscriptWithSpeakers over the first k final
   entries: the lines that follow the header, the last one still open *)
RECURSIVE speakerBlocks(_, _)
speakerBlocks(finals, k) ==
  IF k = 0 THEN << <<>> >>
  ELSE LET before == speakerBlocks(finals, k - 1)
           currentSpeaker == IF k = 1 THEN "" ELSE SpeakerOf(finals[k - 1])
           opened == IF SpeakerOf(finals[k]) # currentSpeaker
                       THEN before \o << <<SpeakerOf(finals[k]), ":">>, <<>> >>
                     ELSE before
       IN [opened EXCEPT ![Len(opened)] = @ \o <<finals[k].text, " ">>]

(* formatTranscriptWithSpeakers: the participants are collected from every
   entry of the transcript, the blocks from the final ones *)
formatTranscriptWithSpeakers(t) ==
  LET speakers == Distinct([k \in 1..Len(t) |-> SpeakerOf(t[k])])
      finals == Finals(t)
  IN << <<"Participants: ">> \o JoinWith(speakers, ", "), <<>> >>
       \o speakerBlocks(finals, Len(finals))

(* formatTranscriptAsJSON: the array that JSON.stringify writes *)
formatTranscriptAsJSON(t) ==
  LET finals == Finals(t)
  IN [k \in 1..Len(finals) |->
        [text |-> finals[k].text, speaker |-> SpeakerOf(finals[k]),
         timestamp |-> DateToJSON(finals[k].timestamp),
         startTime |-> DateToJSON(finals[k].startTime),
         endTime |-> DateToJSON(finals[k].endTime),
         confidence |-> finals[k].confidence]]

(* the forEach of formatTranscriptAsMarkdown over the first k final entries *)
RECURSIVE markdownBlocks(_, _)
markdownBlocks(finals, k) ==
  IF k = 0 THEN <<>>
  ELSE LET currentSpeaker == IF k = 1 THEN "" ELSE SpeakerOf(finals[k - 1])
           heading == IF SpeakerOf(finals[k]) # currentSpeaker
                        THEN << <<>>, <<"### ", SpeakerOf(finals[k])>>, <<>> >>
                      ELSE <<>>
       IN markdownBlocks(finals, k - 1) \o heading
            \o << <<"> [">> \o toLocaleTimeString(finals[k].timestamp)
                    \o <<"] ", finals[k].text>>, <<>> >>

(* formatTranscriptAsMarkdown; new Date() is now *)
formatTranscriptAsMarkdown(t) ==
  LET finals == Finals(t)
  IN << <<"# Meeting Transcript">>, <<>>,
        <<"**Date:** ">> \o toLocaleDateString(now), <<>>,
        <<"**Time:** ">> \o toLocaleTimeString(now), <<>>,
        <<"---">>, <<>> >>
       \o markdownBlocks(finals, Len(finals))

(* isStorageNearLimit() for the value getStorageSize() returns; MAX_SIZE *
   0.9 is the double 4718592 exactly, so currentSize > MAX_SIZE * 0.9 is
   10 * currentSize > 9 * MAX_SIZE *)
MAX_SIZE == 5 * 1024 * 1024

(* mutant: true at the threshold, too *)
isStorageNearLimitInclusive(currentSize) == 10 * currentSize >= 9 * MAX_SIZE

isStorageNearLimit(currentSize) == 10 * currentSize > 9 * MAX_SIZE

(* inputs: transcripts of final and interim entries at some times of a
   session that started at time 1000, with the session's start time, an
   earlier time, or none *)
FormatTexts == {"", "hello"}
FormatTimes == {<<1000, 2500>>, <<2500, 3724456>>}

FormatEntries ==
  {[text |-> x, timestamp |-> se[2], startTime |-> se[1], endTime |-> se[2],
    confidence |-> 1, isFinal |-> f, speaker |-> "User"] :
     x \in FormatTexts, se \in FormatTimes, f \in BOOLEAN}

FormatArgs ==
  {[fn |-> "formatTranscript", transcript |-> t, format |-> f,
    sessionStartTime |-> st] :
     t \in UNION {[1..n -> FormatEntries] : n \in 0..MaxEntries},
     f \in {"text", "srt", "webvtt"}, st \in {NoTime, 0, 1000}}

(* transcripts whose entries differ in their speaker, for the formatters
   that take the transcript alone *)
SpeakerEntries ==
  {[text |-> x, timestamp |-> 2500, startTime |-> 1000, endTime |-> 2500,
    confidence |-> 1, isFinal |-> f, speaker |-> sp] :
     x \in {"hello", "hi"}, f \in BOOLEAN, sp \in {"", "User"}}

SpeakerArgs ==
  {[fn |-> name, transcript |-> t] :
     name \in {"formatTranscriptWithSpeakers", "formatTranscriptAsJSON",
               "formatTranscriptAsMarkdown"},
     t \in UNION {[1..n -> SpeakerEntries] : n \in 0..MaxEntries}}

Elapsed ==
  {0, 1, 999, 1000, 59999, 60000, 3599999, 3600000, 3723456, 86399999,
   359999999, 360000000, 0 - 1, 0 - 1500}

TimecodeArgs ==
  {[fn |-> "formatMillisecondsToTimecode", ms |-> e, separator |-> sep] :
     e \in Elapsed, sep \in {",", "."}}

Sizes ==
  {0, MAX_SIZE}
    \cup ((((9 * MAX_SIZE) \div 10) - SizeSpread)..(((9 * MAX_SIZE) \div 10) + SizeSpread))

SizeArgs == {[fn |-> "isStorageNearLimit", size |-> sz] : sz \in Sizes}

nonFormatVars ==
  <<hookVars, storeVars, rec, oldRecs, now, calls, pr, replaced, received,
    sinceStart, createdIds, scn, budget, nResults, nStarts, nLang, timerVars,
    adapterVars, importVars>>

(* formatTranscript(transcript, format, sessionStartTime) *)
formatTranscript ==
  /\ args.fn = "formatTranscript"
  /\ output = NoOutput
  /\ output' = [kind |-> "text",
                lines |-> CASE args.format = "text" -> formatAsText(args.transcript)
                            [] args.format = "srt" ->
                                 formatAsSRT(args.transcript, args.sessionStartTime)
                            [] args.format = "webvtt" ->
                                 formatAsWebVTT(args.transcript, args.sessionStartTime)
                            [] OTHER -> formatAsText(args.transcript)]
  /\ UNCHANGED <<args, nonFormatVars>>

(* a call of formatTranscriptWithSpeakers(transcript) *)
formatWithSpeakers ==
  /\ args.fn = "formatTranscriptWithSpeakers"
  /\ output = NoOutput
  /\ output' = [kind |-> "text",
                lines |-> formatTranscriptWithSpeakers(args.transcript)]
  /\ UNCHANGED <<args, nonFormatVars>>

(* a call of formatTranscriptAsJSON(transcript) *)
formatAsJSON ==
  /\ args.fn = "formatTranscriptAsJSON"
  /\ output = NoOutput
  /\ output' = [kind |-> "json", data |-> formatTranscriptAsJSON(args.transcript)]
  /\ UNCHANGED <<args, nonFormatVars>>

(* a call of formatTranscriptAsMarkdown(transcript) *)
formatAsMarkdown ==
  /\ args.fn = "formatTranscriptAsMarkdown"
  /\ output = NoOutput
  /\ output' = [kind |-> "text",
                lines |-> formatTranscriptAsMarkdown(args.transcript)]
  /\ UNCHANGED <<args, nonFormatVars>>

(* a call of formatMillisecondsToTimecode(ms, separator) *)
formatTimecode ==
  /\ args.fn = "formatMillisecondsToTimecode"
  /\ output = NoOutput
  /\ output' = [kind |-> "timecode",
                chars |-> formatMillisecondsToTimecode(args.ms, args.separator)]
  /\ UNCHANGED <<args, nonFormatVars>>

(* a call of isStorageNearLimit() when getStorageSize() returns args.size *)
checkStorageNearLimit ==
  /\ args.fn = "isStorageNearLimit"
  /\ output = NoOutput
  /\ output' = [kind |-> "boolean", value |-> isStorageNearLimit(args.size)]
  /\ UNCHANGED <<args, nonFormatVars>>

InitFormat ==
  /\ hasRecognition = TRUE
  /\ isListening = FALSE
  /\ transcript = <<>>
  /\ currentSession = NoSession
  /\ error = NoError
  /\ sessions = <<>>
  /\ language = "en"
  /\ beginTimeRef = NoTime
  /\ capSession = NoSession
  /\ capListening = FALSE
  /\ rec = "idle"
  /\ oldRecs = {}
  /\ lsList = <<>>
  /\ lsItem = <<>>
  /\ now = 0
  /\ calls = <<>>
  /\ pr = 0
  /\ replaced = "none"
  /\ received = <<>>
  /\ sinceStart = "none"
  /\ createdIds = {}
  /\ scn = 0
  /\ nResults = 0
  /\ nStarts = 0
  /\ nLang = 0
  /\ budget = AdapterBudget
  /\ timers = <<>>
  /\ nErrors = 0
  /\ svcIsListening = FALSE
  /\ autoRestart = TRUE
  /\ restartTimer = FALSE
  /\ recognitionLang = "en"
  /\ recognition = "idle"
  /\ timeouts = <<>>
  /\ svcCalls = <<>>
  /\ emitted = <<>>
  /\ scheduled = <<>>
  /\ stopped = FALSE
  /\ nTimers = 0
  /\ svcStartTime = NoTime
  /\ svcEntry = NoEntry
  /\ returned = "none"
  /\ op = "none"
  /\ output = NoOutput
  /\ args \in FormatArgs \cup SpeakerArgs \cup TimecodeArgs \cup SizeArgs

NextFormat ==
  \/ formatTranscript
  \/ formatWithSpeakers
  \/ formatAsJSON
  \/ formatAsMarkdown
  \/ formatTimecode
  \/ checkStorageNearLimit

SpecFormat == InitFormat /\ [][NextFormat]_vars

(* ------------------------------- claims -------------------------------- *)

(* C1: the in-memory transcript has at most one entry with isFinal = FALSE,
   and that entry is its last element; every entry before it is final. *)
C1_InterimOnlyAtTail ==
  \A i \in 1..Len(transcript) : ~transcript[i].isFinal => i = Len(transcript)

(* a final entry followed by an interim one, after an earlier interim entry
   was replaced *)
C1_Witness ==
  /\ Len(transcript) >= 2
  /\ ~transcript[Len(transcript)].isFinal
  /\ replaced # "none"

(* C2: right after a final result is handled while a session created by
   startListening is current, the store holds a record under the current
   session's id whose transcript is exactly the final entries received for
   the session so far, in arrival order. *)
C2_FinalResultIsStored ==
  [][(FinalResultStep /\ sinceStart = "results" /\ currentSession # NoSession)
       => /\ currentSession' # NoSession
          /\ storedSession(lsList', currentSession'.id) # NoSession
          /\ storedSession(lsList', currentSession'.id).transcript = received']_vars

(* C3: after startListening, interim "he", interim "hell", final "Hello." and
   stopListening, the in-memory transcript is the single final entry "Hello."
   and the store holds the session with exactly that entry. *)
C3_Scenario ==
  scn = 5 =>
    /\ Len(transcript) = 1
    /\ transcript[1].isFinal
    /\ transcript[1].text = "Hello."
    /\ currentSession # NoSession
    /\ storedSession(lsList, currentSession.id) # NoSession
    /\ storedSession(lsList, currentSession.id).transcript = transcript

(* C4: a final result that arrives when the transcript ends with an interim
   entry takes the place of that entry: the entries before it stay, the
   transcript keeps its length, and its last entry is the final one. *)
C4_FinalReplacesInterim ==
  [][\A r \in RecognitionResults :
       (ResultStep(r) /\ r.isFinal /\ InterimTail(transcript) # "none")
         => LET n == Len(transcript)
            IN /\ Len(transcript') = n
               /\ SubSeq(transcript', 1, n - 1) = SubSeq(transcript, 1, n - 1)
               /\ \A i \in 1..n : transcript'[i].isFinal
               /\ transcript'[n].text = r.transcript]_vars

(* final entries F, then interim "hell" replaced by final "hello" *)
C4_Witness ==
  /\ Len(transcript) >= 2
  /\ replaced = "hell"
  /\ transcript[Len(transcript)].text = "hello"
  /\ transcript[Len(transcript)].isFinal

(* C5 as claimed: after a startListening with no clearTranscript or
   loadSession since, the transcript has as many final entries as final
   results were received. *)
C5_FinalCountAsClaimed ==
  sinceStart \in {"results", "deleted"}
    => Len(Finals(transcript)) = Len(received)

(* C5 amended: after a startListening with no clearTranscript, no loadSession
   and no deleteSession of the current session since, the transcript has as
   many final entries as final results were received. *)
C5_FinalCount ==
  sinceStart = "results" => Len(Finals(transcript)) = Len(received)

(* two final results and an interim one received since the start *)
C5_Witness ==
  /\ sinceStart = "results"
  /\ Len(received) >= 2
  /\ nResults > Len(received)

(* C6: outside clearTranscript, startListening, loadSession and
   deleteSession, the final entries of the in-memory transcript, of the
   current session and of the current session's stored record only grow at
   the end: what they were before a step is a prefix of what they are after
   it. *)
C6_FinalsAppendOnly ==
  [][~(\/ clearTranscript
       \/ startListening
       \/ \E id \in SessionIds : loadSession(id)
       \/ \E id \in SessionIds : deleteSession(id))
       => /\ IsPrefix(Finals(transcript), Finals(transcript'))
          /\ (currentSession # NoSession /\ currentSession'.id = currentSession.id)
               => IsPrefix(Finals(currentSession.transcript),
                           Finals(currentSession'.transcript))
          /\ (currentSession # NoSession
                /\ storedSession(lsList, currentSession.id) # NoSession)
               => /\ storedSession(lsList', currentSession.id) # NoSession
                  /\ IsPrefix(
                       Finals(storedSession(lsList, currentSession.id).transcript),
                       Finals(storedSession(lsList', currentSession.id).transcript))]_vars

(* C7: stopListening with a current session calls the recognizer's stop and
   leaves the store holding a record under that session's id that contains
   every final entry received for the session. *)
C7_StopPersistsFinals ==
  [][(stopListening /\ hasRecognition /\ currentSession # NoSession
        /\ sinceStart = "results")
       => /\ calls' = <<"stop">>
          /\ storedSession(lsList', currentSession.id) # NoSession
          /\ \A i \in 1..Len(received) :
               \E k \in 1..Len(storedSession(lsList', currentSession.id).transcript) :
                 storedSession(lsList', currentSession.id).transcript[k] = received[i]]_vars

(* C8: startListening with a recognition object makes a newly created session
   with an empty transcript the current one, empties the in-memory transcript
   and calls the recognizer's start; without a recognition object it sets an
   error, creates no session and leaves the transcript as it was. *)
C8_StartListening ==
  [][startListening
       => IF hasRecognition
            THEN /\ currentSession' # NoSession
                 /\ currentSession'.id = now
                 /\ currentSession'.startTime = now
                 /\ currentSession'.transcript = <<>>
                 /\ transcript' = <<>>
                 /\ calls' = <<"start">>
                 /\ createdIds' = createdIds \cup {currentSession'.id}
            ELSE /\ error' # NoError
                 /\ currentSession' = currentSession
                 /\ createdIds' = createdIds
                 /\ transcript' = transcript
                 /\ calls' = <<>>]_vars

(* a second startListening, invoked with entries in the transcript, has left
   a fresh session and an empty transcript *)
C8_Witness ==
  /\ nStarts = 2
  /\ nResults > 0
  /\ sinceStart = "results"
  /\ received = <<>>
  /\ calls = <<"start">>
  /\ pr = 0
  /\ transcript = <<>>
  /\ currentSession # NoSession
  /\ currentSession.transcript = <<>>

(* C9: the id of a session created by startListening differs from the id of
   every session created earlier and of every session in the store. *)
C9_SessionIdsUnique ==
  [][(startListening /\ hasRecognition)
       => /\ currentSession'.id \notin createdIds
          /\ currentSession'.id \notin storedIds(lsList)]_vars

(* C10: pauseListening while listening calls the recognizer's stop, the
   resumeListening that follows it calls the recognizer's start, and across
   both the current session, the in-memory transcript, the set of created
   sessions and the stored sessions are unchanged. *)
C10_PauseResumeKeepsSession ==
  [][(pr' \in {1, 2})
       => /\ calls' = (IF pr' = 1 THEN <<"stop">> ELSE <<"start">>)
          /\ currentSession' = currentSession
          /\ transcript' = transcript
          /\ createdIds' = createdIds
          /\ lsList' = lsList
          /\ lsItem' = lsItem]_vars

(* a resume right after a pause, with a session and a transcript to keep *)
C10_Witness ==
  /\ pr = 2
  /\ calls = <<"start">>
  /\ currentSession # NoSession
  /\ Len(transcript) >= 1
  /\ ~isListening

(* ------------------------------ typing --------------------------------- *)
(* C11: clearTranscript, in any state, empties the in-memory transcript; when
   a session is current it sets that session's transcript to empty and stores
   the emptied session under the aggregate key and under its own key; it
   leaves the listening state and the session's id unchanged. *)
C11_ClearTranscript ==
  [][clearTranscript =>
       /\ transcript' = <<>>
       /\ isListening' = isListening
       /\ IF currentSession # NoSession
            THEN /\ currentSession' = [currentSession EXCEPT !.transcript = <<>>]
                 /\ currentSession'.id = currentSession.id
                 /\ storedSession(lsList', currentSession.id) = currentSession'
                 /\ currentSession.id \in DOMAIN lsItem'
                 /\ SessionFromJSON(lsItem'[currentSession.id]) = currentSession'
            ELSE /\ currentSession' = NoSession
                 /\ UNCHANGED storeVars]_vars

(* clearTranscript has emptied a transcript that had received final results,
   while listening, and the emptied current session is the stored one *)
C11_Witness ==
  /\ sinceStart = "cleared"
  /\ received # <<>>
  /\ isListening
  /\ transcript = <<>>
  /\ currentSession # NoSession
  /\ currentSession.transcript = <<>>
  /\ storedSession(lsList, currentSession.id) = currentSession

(* C12: after an explicit stop() or abort() on the adapter, no timer that was
   set before it (on end, on a no-speech or network error, or by setLanguage)
   starts the recognizer when it fires: with no start() called since, the
   timer leaves the idle recognizer idle and calls none of its methods. *)
C12_StopCancelsRestarts ==
  [][\A i \in DOMAIN timeouts :
       (TimeoutFires(i) /\ timeouts[i].stale /\ stopped /\ recognition = "idle")
         => (svcCalls' = <<>> /\ recognition' = "idle")]_vars

(* C13: when the recognizer's end event arrives while auto-restart is enabled
   and neither stop() nor abort() was called, the adapter sets a timer that
   calls start() after 1000 ms. *)
C13_EndSchedulesRestart ==
  [][(svcOnEnd /\ autoRestart /\ ~stopped)
       => (scheduled' = <<EndDelay>> /\ restartTimer'
           /\ \E i \in DOMAIN timeouts' : timeouts'[i].kind = "end")]_vars

(* C14: stop() and abort() set auto-restart to false and issue the stop or
   abort request; the end event that arrives after them sets no timer and
   calls no method of the recognizer. *)
C14_NoRestartAfterStop ==
  /\ [][stop => (autoRestart' = FALSE /\ svcCalls' = <<"stop">>)]_vars
  /\ [][abort => (autoRestart' = FALSE /\ svcCalls' = <<"abort">>)]_vars
  /\ [][(svcOnEnd /\ stopped)
          => (scheduled' = <<>> /\ svcCalls' = <<>> /\ timeouts' = timeouts
              /\ restartTimer' = restartTimer
              /\ recognition' = "idle")]_vars

(* the end event of a recognizer that was listening has arrived after an
   explicit stop() or abort(), and nothing is pending *)
C14_Witness ==
  /\ stopped
  /\ ~autoRestart
  /\ recognition = "idle"
  /\ emitted = <<Callback("onEnd", "none"), Callback("onStatusChange", "stopped")>>
  /\ scheduled = <<>>
  /\ timeouts = <<>>
  /\ ~restartTimer

(* the pending timers of a kind *)
Pending(kinds) == SelectSeq(timeouts, LAMBDA t : t.kind \in kinds)

(* C15: on a no-speech or network error with auto-restart enabled the adapter
   sets one timer, of 500 ms for no-speech and of 2000 ms for network; with
   auto-restart disabled it sets none.  A timer set for an error leaves the
   pending timers only by firing, firing calls the recognizer's start, and
   every such timer eventually fires. *)
C15_ErrorSchedulesRestart ==
  /\ [][\A kind \in {"no-speech", "network"} :
          svcOnError(kind) =>
            LET delay == IF kind = "no-speech" THEN NoSpeechDelay
                         ELSE NetworkDelay
            IN IF autoRestart
                 THEN /\ scheduled' = <<delay>>
                      /\ timeouts' = Append(timeouts, Timeout(kind, delay, FALSE))
                 ELSE /\ scheduled' = <<>>
                      /\ timeouts' = timeouts]_vars
  /\ [][Len(Pending({"no-speech", "network"})') < Len(Pending({"no-speech", "network"}))
          => svcCalls' = <<"start">>]_vars
  /\ (Pending({"no-speech", "network"}) # <<>>)
       ~> (Pending({"no-speech", "network"}) = <<>>)

(* a network error has just been reported with auto-restart enabled and its
   timer is pending *)
C15_Witness ==
  /\ emitted # <<>>
  /\ emitted[1] = Callback("onError", "network")
  /\ scheduled = <<NetworkDelay>>
  /\ Pending({"network"}) # <<>>
  /\ autoRestart
  /\ recognition = "failed"

(* C19: setLanguage(l) on a listening adapter sets the recognizer's language
   to l, calls its stop and sets one timer of 100 ms; when that timer fires it
   enables auto-restart and calls the recognizer's start, the language still
   being the one set last, and the timer eventually fires.  On an adapter that
   is not listening setLanguage(l) only sets the language: it calls no method
   of the recognizer and sets no timer. *)
C19_SetLanguage ==
  /\ [][\A l \in Languages :
          setLanguage(l) =>
            /\ recognitionLang' = l
            /\ IF svcIsListening
                 THEN /\ svcCalls' = <<"stop">>
                      /\ scheduled' = <<LanguageDelay>>
                      /\ Len(Pending({"language"})') = Len(Pending({"language"})) + 1
                 ELSE /\ svcCalls' = <<>>
                      /\ scheduled' = <<>>
                      /\ UNCHANGED <<svcIsListening, autoRestart, restartTimer,
                                     recognition, timeouts>>]_vars
  /\ [][\A i \in DOMAIN timeouts :
          (TimeoutFires(i) /\ timeouts[i].kind = "language") =>
            /\ autoRestart'
            /\ svcCalls' = <<"start">>
            /\ recognitionLang' = recognitionLang]_vars
  /\ [][Len(Pending({"language"})') < Len(Pending({"language"}))
          => (svcCalls' = <<"start">> /\ autoRestart')]_vars
  /\ (Pending({"language"}) # <<>>) ~> (Pending({"language"}) = <<>>)

(* setLanguage has just stopped a listening recognizer for the language es
   and its timer is pending *)
C19_Witness ==
  /\ svcIsListening
  /\ recognitionLang = "es"
  /\ recognition = "stopping"
  /\ svcCalls = <<"stop">>
  /\ scheduled = <<LanguageDelay>>
  /\ Pending({"language"}) # <<>>
  /\ ~autoRestart

(* C16: an audio-capture or not-allowed error never leads to an automatic
   call of the recognizer's start: the adapter sets no timer for such an
   error, and in the hook a timer set for such an error, firing after the
   recognition has ended, leaves it idle and calls none of its methods. *)
C16_FatalErrorNoRestart ==
  /\ [][\A kind \in {"audio-capture", "not-allowed"} :
          svcOnError(kind) =>
            (scheduled' = <<>> /\ timeouts' = timeouts /\ svcCalls' = <<>>)]_vars
  /\ [][\A kind \in {"audio-capture", "not-allowed"} :
          OnError(kind) => calls' = <<>>]_vars
  /\ [][(TimerFires /\ Head(timers).kind \in {"audio-capture", "not-allowed"}
           /\ rec = "idle")
          => (calls' = <<>> /\ rec' = "idle")]_vars

(* C17: an "aborted" error of the recognizer reports no error: the adapter
   does not invoke onError, the hook's error state stays as it is, and
   neither sets a timer. *)
C17_AbortedNotReported ==
  /\ [][svcOnError("aborted") =>
          /\ \A k \in DOMAIN emitted' : emitted'[k].cb # "onError"
          /\ scheduled' = <<>>
          /\ timeouts' = timeouts]_vars
  /\ [][OnError("aborted") => (error' = error /\ timers' = timers)]_vars

(* C18: every error event of the recognizer is reported by the handler that
   receives it: the hook sets its error state to the error, which is not
   null, and the adapter invokes onError with the error and emits the status
   "error".  From the error event of the hook's recognition object to its end
   event the error state is not null, so the end event that follows an error
   sets isListening to false with the error showing. *)
C18_ErrorsObservable ==
  /\ [][\A kind \in ErrorKinds :
          OnError(kind) => (error' = kind /\ error' # NoError)]_vars
  /\ [](rec = "failed" => error # NoError)
  /\ [][(OnEnd /\ rec = "failed")
          => (error # NoError /\ error' = error /\ ~isListening')]_vars
  /\ [][\A kind \in ErrorKinds :
          svcOnError(kind) =>
            /\ Len(emitted') >= 2
            /\ emitted'[1] = Callback("onError", kind)
            /\ emitted'[2] = Callback("onStatusChange", "error")]_vars

(* the hook's recognition object has delivered an error while listening and
   has not ended yet *)
C18_Witness ==
  /\ rec = "failed"
  /\ isListening
  /\ error \in ErrorKinds
  /\ nErrors > 0

(* an imported payload passes validation when it is a list in which every
   element is a session record *)
IsSessionList(payload) ==
  /\ payload.kind = "array"
  /\ \A i \in DOMAIN payload.elems : payload.elems[i] \in ImportSessions

(* C20: importSessions of a payload that is not a list of session-shaped
   records returns false and leaves the content of the store exactly as it
   was, also when valid records precede an invalid one. *)
C20_ImportCommitsNothingOnFailure ==
  [][\A payload \in Payloads :
       (importSessions(payload) /\ ~IsSessionList(payload))
         => (returned' = "false" /\ UNCHANGED storeVars)]_vars

(* C21: importSessions(exportSessions()) returns true and leaves
   getAllSessions returning the same sessions in the same order, each with
   the same field values and the same transcript entries in the same order,
   both when the exported text is imported into the store it came from and
   when it is imported into an empty store. *)
C21_ExportImportRoundTrip ==
  /\ [][importExported
          => (returned' = "true" /\ getAllSessionsOf(lsList') = getAllSessions)]_vars
  /\ [](getAllSessionsOf(saveEach(EmptyStore, exportSessions.elems).list)
          = getAllSessions)

(* the export of two stored sessions, one with two transcript entries, has
   just been imported into the store it came from *)
C21_Witness ==
  /\ op = "import exported"
  /\ returned = "true"
  /\ Len(getAllSessions) >= 2
  /\ \E i \in 1..Len(getAllSessions) : Len(getAllSessions[i].transcript) = 2

(* C22: saveSession(s) is an upsert by id: after it getSession(s.id) returns
   s, every stored session with another id is unchanged and at the position
   it had, and a session with a new id is added at the end; after any
   sequence of saveSession, deleteSession, clearAllSessions and
   importSessions, getAllSessions has at most one record per id. *)
C22_SaveSessionUpserts ==
  /\ [][\A s \in StoreSessions :
          saveSession(s) =>
            LET before == getAllSessions
                after == getAllSessionsOf(lsList')
            IN /\ storedSession(lsList', s.id) = s
               /\ Len(after) = (IF s.id \in storedIds(lsList) THEN Len(before)
                                ELSE Len(before) + 1)
               /\ \A i \in 1..Len(before) :
                    IF before[i].id = s.id THEN after[i] = s
                    ELSE after[i] = before[i]]_vars
  /\ [](\A i, k \in 1..Len(getAllSessions) :
          getAllSessions[i].id = getAllSessions[k].id => i = k)

(* saveSession has just replaced the first of two stored sessions by one
   with two transcript entries *)
C22_Witness ==
  /\ op = "save"
  /\ Len(getAllSessions) = 2
  /\ Len(getAllSessions[1].transcript) = 2
  /\ getAllSessions[1].id = 1
  /\ getAllSessions[2].id = 0
  /\ getSession(1) = getAllSessions[1]

(* C23: a saveSession or deleteSession during which an access to the
   key-value store throws leaves the aggregate key and the per-session keys
   as they were. *)
C23_FailureIsNoOp ==
  [][((\E s \in StoreSessions, at \in SaveAccesses : saveSessionFails(s, at))
        \/ (\E sessionId \in ImportIds, at \in DeleteAccesses :
              deleteSessionFails(sessionId, at)))
       => UNCHANGED storeVars]_vars

(* C24: a session that getAllSessions returns is still returned after a
   saveSession, an importSessions or a getSession; it leaves only by
   deleteSession with its id or by clearAllSessions. *)
C24_StoredSessionsStay ==
  [][\A id \in storedIds(lsList) :
       \/ id \in storedIds(lsList')
       \/ handleDelete(id)
       \/ clearAllSessions]_vars

(* the records of the aggregate key as they are written there *)
rawList == IF lsList = <<>> THEN <<>> ELSE lsList[1]

(* C25: after any sequence of saveSession, deleteSession, clearAllSessions
   and importSessions, the per-session keys that exist are those of the ids
   of the records in the aggregate list, and each holds the record the
   aggregate list has for its id. *)
C25_KeysMatchAggregate ==
  /\ DOMAIN lsItem = {rawList[i].id : i \in 1..Len(rawList)} \ {NoId}
  /\ \A i \in 1..Len(rawList) :
       rawList[i] # JSONNull => lsItem[rawList[i].id] = rawList[i]

(* C26: isStorageNearLimit() returns true exactly when the stored size is
   greater than 0.9 * 5 * 1024 * 1024 = 4718592, and false otherwise, at
   4718592 too. *)
C26_NearLimitThreshold ==
  (args.fn = "isStorageNearLimit" /\ output # NoOutput)
    => /\ output.value = (args.size > 4718592)
       /\ args.size = 4718592 => output.value = FALSE

(* the check has returned false for a stored size of exactly 90% of 5 MB *)
C26_Witness ==
  /\ args.fn = "isStorageNearLimit"
  /\ output # NoOutput
  /\ args.size = 4718592
  /\ output.value = FALSE

(* C27: formatTranscript(transcript, 'srt') emits one cue for every entry
   with isFinal = true and none for the others: the cues are numbered 1, 2,
   ..., n without a gap and carry the texts of the final entries in
   transcript order. *)
C27_SrtCueNumbers ==
  (args.fn = "formatTranscript" /\ args.format = "srt" /\ output # NoOutput)
    => LET finals == Finals(args.transcript)
       IN /\ Len(output.lines) = 4 * Len(finals)
          /\ \A k \in 1..Len(finals) :
               /\ output.lines[4 * (k - 1) + 1] = <<DigitChars[k + 1]>>
               /\ output.lines[4 * (k - 1) + 3] = <<finals[k].text>>
               /\ output.lines[4 * k] = <<>>

(* the SRT text of a transcript that begins with an interim entry and has
   two final entries after it *)
C27_Witness ==
  /\ args.fn = "formatTranscript"
  /\ args.format = "srt"
  /\ output # NoOutput
  /\ Len(args.transcript) = 3
  /\ ~args.transcript[1].isFinal
  /\ Len(Finals(args.transcript)) = 2
  /\ output.lines[5] = <<"2">>

(* a number below 100 in two digits, a number below 1000 in three *)
TwoDigits(n) == <<DigitChars[(n \div 10) + 1], DigitChars[(n % 10) + 1]>>
ThreeDigits(n) == <<DigitChars[(n \div 100) + 1]>> \o TwoDigits(n % 100)

(* C29: for an elapsed time e >= 0 in ms the timecode is HH:MM:SS<sep>mmm
   with HH = floor(e / 3600000), MM = floor(e / 60000) mod 60,
   SS = floor(e / 1000) mod 60 and mmm = e mod 1000, padded with zeros to 2,
   2, 2 and 3 digits; for e = 3723456 it is 01:02:03,456 with the separator
   of SRT and 01:02:03.456 with that of WebVTT. *)
C29_Timecode ==
  (args.fn = "formatMillisecondsToTimecode" /\ output # NoOutput /\ args.ms >= 0)
    => LET e == args.ms
           HH == e \div 3600000
           MM == (e \div 60000) % 60
           SS == (e \div 1000) % 60
           mmm == e % 1000
       IN /\ output.chars =
               (IF HH < 100 THEN TwoDigits(HH) ELSE ThreeDigits(HH)) \o <<":">>
                 \o TwoDigits(MM) \o <<":">> \o TwoDigits(SS)
                 \o <<args.separator>> \o ThreeDigits(mmm)
          /\ (e = 3723456 /\ args.separator = ",")
               => output.chars = <<"0", "1", ":", "0", "2", ":", "0", "3", ",",
                                   "4", "5", "6">>
          /\ (e = 3723456 /\ args.separator = ".")
               => output.chars = <<"0", "1", ":", "0", "2", ":", "0", "3", ".",
                                   "4", "5", "6">>

(* the timecode of 3723456 ms has been formatted for SRT *)
C29_Witness ==
  /\ args.fn = "formatMillisecondsToTimecode"
  /\ output # NoOutput
  /\ args.ms = 3723456
  /\ args.separator = ","
  /\ Len(output.chars) = 12

(* a timecode line with every "," turned into "." *)
CommaToDot(line) ==
  [i \in 1..Len(line) |-> IF line[i] = "," THEN "." ELSE line[i]]

(* C30: the WebVTT text of a transcript is the line WEBVTT, an empty line,
   and then the lines of its SRT text, the same cue numbers, texts and
   timecode fields, with "." in place of "," in the timecode lines; with a
   session start time given and with none. *)
C30_WebVttMatchesSrt ==
  (args.fn = "formatTranscript" /\ args.format = "webvtt" /\ output # NoOutput)
    => LET srt == formatAsSRT(args.transcript, args.sessionStartTime)
       IN output.lines =
            << <<"WEBVTT">>, <<>> >> \o
            [k \in 1..Len(srt) |->
               IF k % 4 = 2 THEN CommaToDot(srt[k]) ELSE srt[k]]

(* the WebVTT text of two final entries after an interim one, formatted with
   no session start time *)
C30_Witness ==
  /\ args.fn = "formatTranscript"
  /\ args.format = "webvtt"
  /\ output # NoOutput
  /\ args.sessionStartTime = NoTime
  /\ Len(args.transcript) = 3
  /\ ~args.transcript[1].isFinal
  /\ Len(output.lines) = 10

(* the characters of a timecode in ascending order, and the order of two
   timecodes of one length read from the left *)
TimecodeChars == <<"-", ",", ".", ":">> \o DigitChars
CharRank(c) == CHOOSE i \in DOMAIN TimecodeChars : TimecodeChars[i] = c

RECURSIVE TimecodeLeq(_, _)
TimecodeLeq(a, b) ==
  IF a = <<>> \/ b = <<>> THEN a = <<>>
  ELSE IF Head(a) = Head(b) THEN TimecodeLeq(Tail(a), Tail(b))
  ELSE CharRank(Head(a)) < CharRank(Head(b))

EntryOrdered(e) == e.startTime <= e.endTime

(* the cues of the SRT and WebVTT texts of transcript t, formatted with the
   start time st, end no earlier than they start *)
CuesOrdered(t, st) ==
  LET startTime == StartTimeOf(t, st)
  IN \A i \in 1..Len(t) :
       t[i].isFinal =>
         /\ TimecodeLeq(formatTimecodeSRT(t[i].startTime, startTime),
                        formatTimecodeSRT(t[i].endTime, startTime))
         /\ TimecodeLeq(formatTimecodeVTT(t[i].startTime, startTime),
                        formatTimecodeVTT(t[i].endTime, startTime))

(* C28: every entry the result handlers of the hook and of the adapter
   create has startTime <= endTime, whatever start, result and end events
   came before it: so has every entry of the in-memory transcript, of the
   current session and of the stored sessions, and the entry the adapter
   passed to onResult last.  Every cue of the SRT and WebVTT texts of the
   current session, of the last entry of the in-memory transcript and of the
   adapter's entry has an end timecode that is not before its start
   timecode. *)
C28_StartNotAfterEnd ==
  /\ \A i \in 1..Len(transcript) : EntryOrdered(transcript[i])
  /\ svcEntry # NoEntry => EntryOrdered(svcEntry)
  /\ currentSession # NoSession =>
       /\ \A i \in 1..Len(currentSession.transcript) :
            EntryOrdered(currentSession.transcript[i])
       /\ CuesOrdered(currentSession.transcript, currentSession.startTime)
  /\ \A k \in 1..Len(rawList) :
       \A i \in 1..Len(rawList[k].transcript) :
         rawList[k].transcript[i].startTime.iso <= rawList[k].transcript[i].endTime.iso
  /\ transcript # <<>> => CuesOrdered(<<transcript[Len(transcript)]>>, NoTime)
  /\ svcEntry # NoEntry => CuesOrdered(<<svcEntry>>, 0)

(* the hook has recorded a final entry of an utterance that began at time 0
   and ended at time 1 *)
C28_Witness ==
  /\ Len(transcript) >= 1
  /\ transcript[Len(transcript)].isFinal
  /\ transcript[Len(transcript)].startTime = 0
  /\ transcript[Len(transcript)].endTime = 1
  /\ beginTimeRef = 1
  /\ now = 1

(* the transcript texts and the speaker labels the formatters can write *)
TranscriptTexts == {"", "hello", "hi"}
SpeakerLabels == {"User", "Unknown"}

TranscriptFormatters ==
  {"formatTranscript", "formatTranscriptWithSpeakers", "formatTranscriptAsJSON",
   "formatTranscriptAsMarkdown"}

IsTranscriptText(x) == x \in TranscriptTexts

(* the transcript texts the output carries, in the order of the output *)
OutputTexts ==
  IF output.kind = "json"
    THEN [k \in 1..Len(output.data) |-> output.data[k].text]
  ELSE SelectSeq(Lines(output.lines), IsTranscriptText)

(* the speaker labels the output carries *)
OutputLabels ==
  IF output.kind = "json"
    THEN {output.data[k].speaker : k \in 1..Len(output.data)}
  ELSE {x \in {Lines(output.lines)[i] : i \in 1..Len(Lines(output.lines))} :
          x \in SpeakerLabels}

(* C31: the output of every formatter (text, srt, webvtt, markdown, JSON,
   speaker-grouped) carries the texts of the final entries of the
   transcript, in transcript order, and no text and no speaker label of an
   entry that is not final *)
C31_OnlyFinalEntries ==
  (args.fn \in TranscriptFormatters /\ output # NoOutput) =>
     LET finals == Finals(args.transcript)
     IN /\ OutputTexts = [k \in 1..Len(finals) |-> finals[k].text]
        /\ OutputLabels \subseteq {SpeakerOf(finals[k]) : k \in 1..Len(finals)}

(* the part of C31 that leaves formatTranscriptWithSpeakers out *)
C31_OtherKinds ==
  args.fn # "formatTranscriptWithSpeakers" => C31_OnlyFinalEntries

(* C32: filtering of empty texts is done by the formatters: in the text,
   SRT and WebVTT outputs of formatTranscript no cue and no block belongs to
   a final entry whose text is empty *)
C32_EmptyTextFiltered ==
  (args.fn = "formatTranscript" /\ output # NoOutput) =>
     \A i \in 1..Len(OutputTexts) : OutputTexts[i] # ""

(* a step in which the hook's recognition delivered results, and one in
   which every result delivered was interim *)
ResultsDelivered == nResults' > nResults
InterimsDelivered == ResultsDelivered /\ received' = received

(* every entry that follows a final entry in the transcript starts no
   earlier than that final entry ends *)
StartsAfterFinal(t) ==
  \A i \in 1..(Len(t) - 1) : t[i].isFinal => t[i + 1].startTime >= t[i].endTime

(* C33: the utterance clock: interim results leave the reference start time
   unchanged and their entries carry it, and a final result resets it to the
   current time, so that the entry that follows a final entry starts no
   earlier than the final entry ends *)
C33_UtteranceClock ==
  [][/\ InterimsDelivered =>
          /\ beginTimeRef' = beginTimeRef
          /\ beginTimeRef # NoTime =>
               transcript'[Len(transcript')].startTime = beginTimeRef
     /\ ResultsDelivered => StartsAfterFinal(transcript')]_vars

(* the part of C33 for result events that carry one result *)
C33_SingleResults ==
  [][(\E r \in RecognitionResults : OnResult(r)) =>
       /\ InterimsDelivered =>
            /\ beginTimeRef' = beginTimeRef
            /\ beginTimeRef # NoTime =>
                 transcript'[Len(transcript')].startTime = beginTimeRef
       /\ StartsAfterFinal(transcript) => StartsAfterFinal(transcript')]_vars

(* what one run of recognition.onresult for the single result r, with its
   render, makes of the transcript, the utterance clock and the store *)
AfterResult(st, cap, r) ==
  LET entry == MakeEntry(r, st.begin, now)
      updatedSession == UpdatedSession(cap, entry)
      saves == r.isFinal /\ cap # NoSession
  IN [transcript |-> Reconcile(st.transcript, entry),
      begin |-> IF r.isFinal THEN now ELSE st.begin,
      list |-> IF saves THEN saveSessionList(st.list, updatedSession) ELSE st.list,
      item |-> IF saves THEN saveSessionItem(st.item, updatedSession) ELSE st.item]

(* the results rs delivered one at a time, in order *)
RECURSIVE OneAtATime(_, _, _)
OneAtATime(st, cap, rs) ==
  IF rs = <<>> THEN st
  ELSE OneAtATime(AfterResult(st, cap, Head(rs)), cap, Tail(rs))

HookResultState ==
  [transcript |-> transcript, begin |-> beginTimeRef, list |-> lsList,
   item |-> lsItem]

(* AfterResult is what a result event with one result does *)
C34_OneResult ==
  [][\A r \in RecognitionResults :
       OnResult(r) =>
         LET st == AfterResult(HookResultState, capSession, r)
         IN /\ transcript' = st.transcript
            /\ beginTimeRef' = st.begin
            /\ lsList' = st.list
            /\ lsItem' = st.item]_vars

(* C34: a result event that carries the results from resultIndex to the end
   of the list leaves the same in-memory transcript and the same stored
   session as these results delivered one at a time in index order; the
   results before resultIndex are not processed *)
C34_EventAsOneAtATime ==
  [][\A ev \in ResultEvents : \A eager \in BOOLEAN :
       OnResultEvent(ev, eager) =>
         LET st == OneAtATime(HookResultState, capSession, Visited(ev))
         IN /\ transcript' = st.transcript
            /\ lsList' = st.list
            /\ lsItem' = st.item]_vars

(* the in-memory transcripts agree but for the start times of the entries *)
NoStart(t) == [i \in 1..Len(t) |-> [t[i] EXCEPT !.startTime = NoTime]]
C34_BesidesStartTime ==
  [][\A ev \in ResultEvents : \A eager \in BOOLEAN :
       OnResultEvent(ev, eager) =>
         LET st == OneAtATime(HookResultState, capSession, Visited(ev))
         IN NoStart(transcript') = NoStart(st.transcript)]_vars

(* C35: whenever a session created by startListening is current, its
   transcript is the sequence of the final entries of the in-memory
   transcript, same entries in the same order *)
C35_SessionHoldsFinals ==
  (currentSession # NoSession /\ currentSession.id \in createdIds) =>
     currentSession.transcript = Finals(transcript)

(* C36: whenever the recognizer is listening a current session exists *)
C36_ListeningHasSession == isListening => currentSession # NoSession

(* C37: once the current session was deleted, no record of a session of
   this run comes back into the store by a recognizer event or by
   stopListening; deleteSession of the current session sets the current
   session to null and empties the in-memory transcript, deleteSession of
   another session leaves both unchanged *)
C37_DeletedStaysDeleted ==
  [][/\ (sinceStart = "deleted" /\ sinceStart' = "deleted") =>
          ((storedIds(lsList') \cup DOMAIN lsItem')
             \ (storedIds(lsList) \cup DOMAIN lsItem)) \cap createdIds = {}
     /\ \A id \in SessionIds :
          deleteSession(id) =>
            IF currentSession # NoSession /\ currentSession.id = id
              THEN currentSession' = NoSession /\ transcript' = <<>>
            ELSE UNCHANGED <<currentSession, transcript>>]_vars

(* the second half of C37, about the current session and the transcript *)
C37_DeleteSessionState ==
  [][\A id \in SessionIds :
       deleteSession(id) =>
         IF currentSession # NoSession /\ currentSession.id = id
           THEN currentSession' = NoSession /\ transcript' = <<>>
         ELSE UNCHANGED <<currentSession, transcript>>]_vars

(* C38: startListening invoked while the recognition is not idle, so that
   the recognizer's start throws, reports the failure in the error state and
   leaves the current session and the in-memory transcript as they were *)
C38_FailedStartKeepsState ==
  [][(startListening /\ hasRecognition /\ StartThrows(rec)) =>
       /\ error' = "Failed to start speech recognition"
       /\ currentSession' = currentSession
       /\ transcript' = transcript]_vars

(* the part of C38 about the error state and the recognition object *)
C38_FailedStartReported ==
  [][(startListening /\ hasRecognition /\ StartThrows(rec)) =>
       /\ error' = "Failed to start speech recognition"
       /\ rec' = rec
       /\ UNCHANGED <<isListening, storeVars>>]_vars

TypeOK ==
  /\ isListening \in BOOLEAN
  /\ hasRecognition \in BOOLEAN
  /\ rec \in {"idle", "starting", "running", "stopping", "ending", "failed"}
  /\ now \in 0..MaxClock
  /\ Len(transcript) <= MaxResults
  /\ nResults \in 0..MaxResults
  /\ nErrors \in 0..MaxErrors
  /\ Len(timers) <= MaxErrors
  /\ svcIsListening \in BOOLEAN
  /\ autoRestart \in BOOLEAN
  /\ restartTimer \in BOOLEAN
  /\ recognitionLang \in Languages
  /\ recognition \in {"idle", "starting", "running", "stopping", "ending",
                      "failed", "aborting"}
  /\ nTimers \in 0..MaxTimers
  /\ Len(timeouts) <= MaxTimers
  /\ returned \in {"none", "true", "false"}
  /\ op \in {"none", "import", "import exported", "delete", "save", "clear",
            "save fails", "delete fails"}

====
